---- MODULE Spec2Model ----
(***************************************************************************)
(* math-eval (matheval.c, version 2.0): a recursive-descent evaluator of   *)
(* arithmetic expressions.  The session object (MathEvaluation), the       *)
(* parameter list, the tokenizer and the five engine procedures are        *)
(* modelled as a state machine with an explicit call stack: one action per *)
(* basic block of each procedure, each action fetching at most one token.  *)
(***************************************************************************)
EXTENDS Integers, Sequences, FiniteSets, TLC

(***************************************************************************)
(* Bounds of the model.                                                    *)
(*   MaxBig  magnitudes above it are not representable (stand-in for the   *)
(*           range of a double): an operation that exceeds it yields an    *)
(*           infinity.                                                     *)
(*   MaxDen  largest denominator kept exactly (stand-in for the precision  *)
(*           of a double): a result that needs more is rounded.            *)
(***************************************************************************)
MaxBig == 1000
MaxDen == 40

(***************************************************************************)
(* double.  A finite double is a normalised fraction n/d with d > 0.  The  *)
(* three invalid values have d = 0: NaN is 0/0, the infinities are +-1/0.  *)
(* Signed zeros are not told apart (the code never divides by a zero).     *)
(***************************************************************************)
Abs(i) == IF i < 0 THEN -i ELSE i

Sgn(i) == IF i < 0 THEN -1 ELSE IF i = 0 THEN 0 ELSE 1

RECURSIVE GCD(_, _)
GCD(a, b) == IF b = 0 THEN a ELSE GCD(b, a % b)

NaN == [n |-> 0, d |-> 0]
PInf == [n |-> 1, d |-> 0]
NInf == [n |-> -1, d |-> 0]
InfOf(s) == IF s < 0 THEN NInf ELSE PInf

IsNaN(v) == v.d = 0 /\ v.n = 0
IsInf(v) == v.d = 0 /\ v.n # 0
IsFinite(v) == v.d > 0

\* The double nearest to num/den (den # 0): overflow gives an infinity,
\* loss of precision rounds to the nearest multiple of 1/MaxDen.
Norm(num, den) ==
    LET s == Sgn(num) * Sgn(den)
        an == Abs(num)
        ad == Abs(den)
        g == GCD(an, ad)
        rn == an \div g
        rd == ad \div g
    IN  IF rn > MaxBig * rd THEN InfOf(s)
        ELSE IF rd <= MaxDen THEN [n |-> s * rn, d |-> rd]
        ELSE LET q == rn \div rd
                 r == rn % rd
                 f == (2 * r * MaxDen + rd) \div (2 * rd)
                 tn == q * MaxDen + f
                 tg == GCD(tn, MaxDen)
             IN  [n |-> s * (tn \div tg), d |-> MaxDen \div tg]

Q(num, den) == Norm(num, den)
Zero == [n |-> 0, d |-> 1]
One == [n |-> 1, d |-> 1]
MinusOne == [n |-> -1, d |-> 1]

Neg(a) == [n |-> -a.n, d |-> a.d]

Mul(a, b) ==
    IF IsNaN(a) \/ IsNaN(b) THEN NaN
    ELSE IF IsInf(a) \/ IsInf(b)
         THEN IF a.n = 0 \/ b.n = 0 THEN NaN ELSE InfOf(Sgn(a.n) * Sgn(b.n))
         ELSE Norm(a.n * b.n, a.d * b.d)

Add(a, b) ==
    IF IsNaN(a) \/ IsNaN(b) THEN NaN
    ELSE IF IsInf(a) /\ IsInf(b) THEN (IF a.n = b.n THEN a ELSE NaN)
    ELSE IF IsInf(a) THEN a
    ELSE IF IsInf(b) THEN b
    ELSE Norm(a.n * b.d + b.n * a.d, a.d * b.d)

Sub(a, b) == Add(a, Neg(b))

Div(a, b) ==
    IF IsNaN(a) \/ IsNaN(b) THEN NaN
    ELSE IF IsInf(a) THEN (IF IsInf(b) THEN NaN
                           ELSE InfOf(Sgn(a.n) * (IF b.n < 0 THEN -1 ELSE 1)))
    ELSE IF IsInf(b) THEN Zero
    ELSE IF b.n = 0 THEN (IF a.n = 0 THEN NaN ELSE InfOf(Sgn(a.n)))
    ELSE Norm(a.n * b.d, a.d * b.n)

\* a < b, a > b and a == b of C: every comparison with NaN is false.
Lt(a, b) ==
    IF IsNaN(a) \/ IsNaN(b) THEN FALSE
    ELSE IF IsInf(a) THEN a.n < 0 /\ b # a
    ELSE IF IsInf(b) THEN b.n > 0
    ELSE a.n * b.d < b.n * a.d

Gt(a, b) == Lt(b, a)

EqC(a, b) == ~IsNaN(a) /\ ~IsNaN(b) /\ a = b

IsInteger(v) == v.d = 1

\* floor of a finite double, as an integer
Floor(v) == IF v.n >= 0 THEN v.n \div v.d ELSE -((-v.n + v.d - 1) \div v.d)

\* The macro eexception(n) with math_eval_catch_fp_exceptions true.
eexception(v) == IsNaN(v) \/ v = PInf \/ v = NInf

(***************************************************************************)
(* <math.h>.  The library functions are computed at the reduced precision  *)
(* of the model: exactly where the result is a fraction the model keeps    *)
(* (integer powers, factorials of integers, f(0)), with the domain errors  *)
(* and overflows of the C library (NaN, +-HUGE_VAL), and by a low-order    *)
(* interpolation elsewhere.                                                *)
(***************************************************************************)
M_PI == Norm(22, 7)
M_E == Norm(19, 7)

RECURSIVE PowInt(_, _)
\* b^k for a finite b and an integer k >= 0
PowInt(b, k) ==
    IF k = 0 THEN One
    ELSE IF k % 2 = 1 THEN Mul(b, PowInt(b, k - 1))
    ELSE LET h == PowInt(b, k \div 2) IN Mul(h, h)

\* b^k for a finite b # 0 and any integer k
PowZ(b, k) == IF k >= 0 THEN PowInt(b, k) ELSE Div(One, PowInt(b, -k))

\* the value a fraction fr of the way from lo to hi
Between(lo, hi, fr) == Add(lo, Mul(fr, Sub(hi, lo)))

pow(b, e) ==
    IF e = Zero THEN One
    ELSE IF b = One THEN One
    ELSE IF IsNaN(b) \/ IsNaN(e) THEN NaN
    ELSE IF IsInf(e)
         THEN IF b = MinusOne THEN One
              ELSE IF IsFinite(b) /\ Abs(b.n) < b.d
                   THEN (IF e.n > 0 THEN Zero ELSE PInf)
                   ELSE (IF e.n > 0 THEN PInf ELSE Zero)
    ELSE IF IsInf(b)
         THEN IF e.n < 0 THEN Zero
              ELSE IF b.n < 0 /\ IsInteger(e) /\ e.n % 2 = 1 THEN NInf ELSE PInf
    ELSE IF b.n = 0 THEN (IF e.n < 0 THEN PInf ELSE Zero)
    ELSE IF IsInteger(e) THEN PowZ(b, e.n)
    ELSE IF b.n < 0 THEN NaN
    ELSE Between(PowZ(b, Floor(e)), PowZ(b, Floor(e) + 1), Sub(e, Q(Floor(e), 1)))

exp(x) == pow(M_E, x)

log(x) ==
    IF IsNaN(x) THEN NaN
    ELSE IF x.n < 0 THEN NaN
    ELSE IF x.n = 0 THEN NInf
    ELSE IF IsInf(x) THEN PInf
    ELSE Div(Mul(Q(2, 1), Sub(x, One)), Add(x, One))

HalfPi == Div(M_PI, Q(2, 1))
TwoPi == Mul(Q(2, 1), M_PI)

\* sine of r in 0 .. pi, p being r * (pi - r)
SinFrom(p) ==
    Div(Mul(Q(16, 1), p), Sub(Mul(Q(5, 1), Mul(M_PI, M_PI)), Mul(Q(4, 1), p)))

SinHalfTurn(r) == SinFrom(Mul(r, Sub(M_PI, r)))

\* sine of r in 0 .. 2 pi
SinTurn(r) ==
    IF ~Gt(r, M_PI) THEN SinHalfTurn(r) ELSE Neg(SinHalfTurn(Sub(r, M_PI)))

sin(x) ==
    IF ~IsFinite(x) THEN NaN
    ELSE SinTurn(Sub(x, Mul(Q(Floor(Div(x, TwoPi)), 1), TwoPi)))

cos(x) == IF ~IsFinite(x) THEN NaN ELSE sin(Add(x, HalfPi))

\* tangent from sine s and cosine c
TanFrom(s, c) == IF c = Zero THEN Q(Sgn(s.n) * MaxBig, 1) ELSE Div(s, c)

tan(x) == IF ~IsFinite(x) THEN NaN ELSE TanFrom(sin(x), cos(x))

asin(x) ==
    IF ~IsFinite(x) \/ Abs(x.n) > x.d THEN NaN
    ELSE Mul(x, Add(One, Mul(Sub(HalfPi, One), Mul(x, x))))

acos(x) ==
    IF ~IsFinite(x) \/ Abs(x.n) > x.d THEN NaN
    ELSE Sub(HalfPi, asin(x))

atan(x) ==
    IF IsNaN(x) THEN NaN
    ELSE IF IsInf(x) THEN Mul(Q(x.n, 1), HalfPi)
    ELSE Div(Mul(HalfPi, x), Add(One, Q(Abs(x.n), x.d)))

RECURSIVE FactUp(_, _, _)
\* acc * i * (i+1) * ... * k
FactUp(i, k, acc) ==
    IF i > k \/ ~IsFinite(acc) THEN acc ELSE FactUp(i + 1, k, Mul(acc, Q(i, 1)))

RECURSIVE tgamma(_)
tgamma(y) ==
    IF IsNaN(y) \/ y = NInf THEN NaN
    ELSE IF y = PInf THEN PInf
    ELSE IF IsInteger(y)
         THEN IF y.n = 0 THEN PInf
              ELSE IF y.n < 0 THEN NaN
              ELSE FactUp(1, y.n - 1, One)
    ELSE IF y.n < 0 THEN Div(tgamma(Add(y, One)), y)
    ELSE IF y.n < y.d THEN Div(One, y)
    ELSE Between(FactUp(1, Floor(y) - 1, One), FactUp(1, Floor(y), One),
                 Sub(y, Q(Floor(y), 1)))

(***************************************************************************)
(* The expression text: a sequence of characters, followed by the          *)
(* terminator '\0'.  The cursor is an offset from the start of the text    *)
(* (matheval->cursor - matheval->expression); NULL stands for the null     *)
(* pointer the constructor stores.                                         *)
(***************************************************************************)
NULL == -1
NUL == "\\0"
Beyond == "beyond the terminator"

CharAt(expr, off) ==
    IF off < Len(expr) THEN expr[off + 1]
    ELSE IF off = Len(expr) THEN NUL
    ELSE Beyond

\* IsBlank without the carriage return
IsBlank_NoCR(c) == c \in {" ", "\t", "\n"}

IsBlank(c) == c \in {" ", "\t", "\n", "\r"}

DigitValue ==
    [c \in {"0", "1", "2", "3", "4", "5", "6", "7", "8", "9"} |->
        CASE c = "0" -> 0 [] c = "1" -> 1 [] c = "2" -> 2 [] c = "3" -> 3
          [] c = "4" -> 4 [] c = "5" -> 5 [] c = "6" -> 6 [] c = "7" -> 7
          [] c = "8" -> 8 [] c = "9" -> 9]

IsDigit(c) == c \in DOMAIN DigitValue

HexValue ==
    [c \in (DOMAIN DigitValue) \cup {"a", "b", "c", "d", "e", "f", "A", "B", "C", "D", "E", "F"} |->
        IF c \in DOMAIN DigitValue THEN DigitValue[c]
        ELSE CASE c \in {"a", "A"} -> 10 [] c \in {"b", "B"} -> 11
               [] c \in {"c", "C"} -> 12 [] c \in {"d", "D"} -> 13
               [] c \in {"e", "E"} -> 14 [] c \in {"f", "F"} -> 15]

IsHexDigit(c) == c \in DOMAIN HexValue

\* strncmp( cursor, word, Len(word) ) == 0
StartsWith(expr, off, word) ==
    \A k \in 1..Len(word) : CharAt(expr, off + k - 1) = word[k]

(***************************************************************************)
(* strtod at a position that holds a digit or '.': decimal digits, an      *)
(* optional fraction, an optional exponent (taken only when a digit        *)
(* follows the marker and its sign), or 0x and hexadecimal digits.         *)
(* The result is the end of the number and its value; end = off when no    *)
(* number could be read.                                                   *)
(***************************************************************************)
RECURSIVE ScanDigits(_, _)
ScanDigits(expr, off) ==
    IF IsDigit(CharAt(expr, off)) THEN ScanDigits(expr, off + 1) ELSE off

RECURSIVE ScanHexDigits(_, _)
ScanHexDigits(expr, off) ==
    IF IsHexDigit(CharAt(expr, off)) THEN ScanHexDigits(expr, off + 1) ELSE off

RECURSIVE DigitsToInt(_, _, _, _)
\* the number written in base `base` by the characters from .. to-1
DigitsToInt(expr, from, to, base) ==
    IF from >= to THEN 0
    ELSE DigitsToInt(expr, from, to - 1, base) * base + HexValue[CharAt(expr, to - 1)]

strtod(expr, off) ==
    IF /\ CharAt(expr, off) = "0"
       /\ CharAt(expr, off + 1) \in {"x", "X"}
       /\ IsHexDigit(CharAt(expr, off + 2))
    THEN LET hend == ScanHexDigits(expr, off + 2)
         IN  [end |-> hend, value |-> Q(DigitsToInt(expr, off + 2, hend, 16), 1)]
    ELSE LET iend == ScanDigits(expr, off)
             hasdot == CharAt(expr, iend) = "."
             fend == IF hasdot THEN ScanDigits(expr, iend + 1) ELSE iend
             ndig == (iend - off) + (IF hasdot THEN fend - iend - 1 ELSE 0)
             ipart == DigitsToInt(expr, off, iend, 10)
             fpart == IF hasdot THEN DigitsToInt(expr, iend + 1, fend, 10) ELSE 0
             fscale == IF hasdot THEN PowInt(Q(10, 1), fend - iend - 1) ELSE One
             mant == Add(Q(ipart, 1), Div(Q(fpart, 1), fscale))
             hasmark == CharAt(expr, fend) \in {"e", "E"}
             hassign == hasmark /\ CharAt(expr, fend + 1) \in {"+", "-"}
             xfrom == IF hassign THEN fend + 2 ELSE fend + 1
             hasexp == hasmark /\ IsDigit(CharAt(expr, xfrom))
             xend == IF hasexp THEN ScanDigits(expr, xfrom) ELSE fend
             xval == IF hasexp THEN DigitsToInt(expr, xfrom, xend, 10) ELSE 0
             xneg == hassign /\ CharAt(expr, fend + 1) = "-"
             scale == PowInt(Q(10, 1), xval)
         IN  IF ndig = 0 THEN [end |-> off, value |-> Zero]
             ELSE [end |-> xend,
                   value |-> IF mant = Zero THEN Zero
                             ELSE IF xneg THEN Div(mant, scale)
                             ELSE Mul(mant, scale)]

(***************************************************************************)
(* The tokenizer.  matheval->error is NULL (ErrNone) while no error has    *)
(* been recorded in the running evaluation.                                *)
(***************************************************************************)
ErrNone == "NULL"

FunctionTokens ==
    {"MET_Cos", "MET_Sin", "MET_Tan", "MET_ASi", "MET_ACo", "MET_ATa", "MET_Fac",
     "MET_Log", "MET_Exp", "MET_Pow", "MET_Max", "MET_Min", "MET_Avg"}

\* MathEvalProcessValue: [cursor, value, error]; r is what strtod read at cur
ValueRead(cur, r) ==
    IF r.end = cur
    THEN [cursor |-> cur, value |-> Zero, error |-> "expected value"]
    ELSE IF eexception(r.value)
         THEN [cursor |-> r.end, value |-> Zero, error |-> "value is too big"]
         ELSE [cursor |-> r.end, value |-> r.value, error |-> ErrNone]

MathEvalProcessValue(expr, cur) == ValueRead(cur, strtod(expr, cur))

RECURSIVE SkipBlanks(_, _)
SkipBlanks(expr, off) ==
    IF IsBlank(CharAt(expr, off)) THEN SkipBlanks(expr, off + 1) ELSE off

\* MathEvalProcessPlusToken looking only at the character next to the '+'
PlusToken_BlanksNotSkipped(expr, cur) ==
    [cursor |-> cur + 1,
     token |-> IF CharAt(expr, cur + 1) = "+" THEN "MET_Err" ELSE "MET_Sum"]

\* MathEvalProcessPlusToken: [cursor, token]
MathEvalProcessPlusToken(expr, cur) ==
    LET after == SkipBlanks(expr, cur + 1)
    IN  [cursor |-> after,
         token |-> IF CharAt(expr, after) = "+" THEN "MET_Err" ELSE "MET_Sum"]

\* The first parameter of the list whose name is a prefix of the text at
\* cur (strncmp over param->len characters), 0 when there is none.
RECURSIVE MatchParam(_, _, _, _)
MatchParam(expr, params, cur, i) ==
    IF i > Len(params) THEN 0
    ELSE IF \A k \in 1..params[i].len :
                /\ k <= Len(params[i].name)
                /\ CharAt(expr, cur + k - 1) = params[i].name[k]
         THEN i
         ELSE MatchParam(expr, params, cur, i + 1)

\* A keyword of the switch: [token, value, advance]
Keyword(t, v, adv) == [token |-> t, value |-> v, advance |-> adv]

\* The switch on *matheval->cursor, the blank and the '+' cases apart.
TokenSwitch(expr, cur) ==
    LET c == CharAt(expr, cur)
        at(w) == StartsWith(expr, cur, w)
    IN  CASE c = "-" -> Keyword("MET_Sub", Zero, 1)
          [] c = "*" -> Keyword("MET_Mul", Zero, 1)
          [] c = "/" -> Keyword("MET_Div", Zero, 1)
          [] c = "^" -> Keyword("MET_Exc", Zero, 1)
          [] c = "!" -> Keyword("MET_Fct", Zero, 1)
          [] c = "(" -> Keyword("MET_rbo", Zero, 1)
          [] c = ")" -> Keyword("MET_rbc", Zero, 1)
          [] c = NUL -> Keyword("MET_Eof", Zero, 1)
          [] c = "," -> Keyword("MET_com", Zero, 1)
          [] c = "e" -> IF at(<<"e", "x", "p">>) THEN Keyword("MET_Exp", Zero, 3)
                        ELSE Keyword("MET_Val", exp(One), 1)
          [] c = "f" -> IF at(<<"f", "a", "c", "t">>) THEN Keyword("MET_Fac", Zero, 4)
                        ELSE Keyword("MET_Err", Zero, 0)
          [] c = "p" -> IF at(<<"p", "i">>) THEN Keyword("MET_Val", M_PI, 2)
                        ELSE IF at(<<"p", "o", "w">>) THEN Keyword("MET_Pow", Zero, 3)
                        ELSE Keyword("MET_Err", Zero, 0)
          [] c = "c" -> IF at(<<"c", "o", "s">>) THEN Keyword("MET_Cos", Zero, 3)
                        ELSE Keyword("MET_Err", Zero, 0)
          [] c = "s" -> IF at(<<"s", "i", "n">>) THEN Keyword("MET_Sin", Zero, 3)
                        ELSE Keyword("MET_Err", Zero, 0)
          [] c = "t" -> IF at(<<"t", "a", "n">>) THEN Keyword("MET_Tan", Zero, 3)
                        ELSE Keyword("MET_Err", Zero, 0)
          [] c = "l" -> IF at(<<"l", "o", "g">>) THEN Keyword("MET_Log", Zero, 3)
                        ELSE Keyword("MET_Err", Zero, 0)
          [] c = "m" -> IF at(<<"m", "a", "x">>) THEN Keyword("MET_Max", Zero, 3)
                        ELSE IF at(<<"m", "i", "n">>) THEN Keyword("MET_Min", Zero, 3)
                        ELSE Keyword("MET_Err", Zero, 0)
          [] c = "a" -> IF at(<<"a", "s", "i", "n">>) THEN Keyword("MET_ASi", Zero, 4)
                        ELSE IF at(<<"a", "c", "o", "s">>) THEN Keyword("MET_ACo", Zero, 4)
                        ELSE IF at(<<"a", "t", "a", "n">>) THEN Keyword("MET_ATa", Zero, 4)
                        ELSE IF at(<<"a", "v", "e", "r", "a", "g", "e">>)
                             THEN Keyword("MET_Avg", Zero, 7)
                        ELSE IF at(<<"a", "v", "g">>) THEN Keyword("MET_Avg", Zero, 3)
                        ELSE Keyword("MET_Err", Zero, 0)
          [] OTHER -> Keyword("MET_Err", Zero, 0)

\* MathEvalProcessToken: [cursor, token, value, error].  On the error return
\* of the literal branch *token is not written (token "unset"): no caller
\* reads it, each returns as soon as it sees the error.
LiteralToken(pv) ==
    [cursor |-> pv.cursor,
     token |-> IF pv.error # ErrNone THEN "unset" ELSE "MET_Val",
     value |-> IF pv.error # ErrNone THEN One ELSE pv.value,
     error |-> pv.error]

ParamToken(params, cur, m) ==
    [cursor |-> cur + params[m].len, token |-> "MET_Val",
     value |-> params[m].value, error |-> ErrNone]

PlusToken(pt) ==
    [cursor |-> pt.cursor, token |-> pt.token, value |-> Zero,
     error |-> IF pt.token = "MET_Err" THEN "unexpected symbol" ELSE ErrNone]

\* SymbolToken leaving the cursor on the terminator
SymbolToken_EofNotConsumed(cur, k) ==
    [cursor |-> IF k.token = "MET_Eof" THEN cur ELSE cur + k.advance,
     token |-> k.token, value |-> k.value,
     error |-> IF k.token = "MET_Err" THEN "unexpected symbol" ELSE ErrNone]

SymbolToken(cur, k) ==
    [cursor |-> cur + k.advance, token |-> k.token, value |-> k.value,
     error |-> IF k.token = "MET_Err" THEN "unexpected symbol" ELSE ErrNone]

\* the do loop: a literal, a parameter, a blank (skipped, and the loop goes
\* round again), '+', or the switch
RECURSIVE MathEvalProcessToken(_, _, _)
MathEvalProcessToken(expr, params, cur) ==
    IF IsDigit(CharAt(expr, cur)) \/ CharAt(expr, cur) = "."
    THEN LiteralToken(MathEvalProcessValue(expr, cur))
    ELSE IF MatchParam(expr, params, cur, 1) # 0
    THEN ParamToken(params, cur, MatchParam(expr, params, cur, 1))
    ELSE IF IsBlank(CharAt(expr, cur))
    THEN MathEvalProcessToken(expr, params, cur + 1)
    ELSE IF CharAt(expr, cur) = "+"
    THEN PlusToken(MathEvalProcessPlusToken(expr, cur))
    ELSE SymbolToken(cur, TokenSwitch(expr, cur))

(***************************************************************************)
(* The session (struct MathEvaluation) and the running calls.              *)
(*   expression, params, cursor, result, roundBracketsCount, error         *)
(*              the fields of the session;                                 *)
(*   stack      the C call stack of the running evaluation, innermost call *)
(*              last; each frame holds the procedure, the position in it   *)
(*              and its parameters and locals;                             *)
(*   ret        the value the last returned call handed back, with the     *)
(*              token it wrote through its output pointer;                 *)
(*   status, outResult   what the last completed MathEvaluationPerform     *)
(*              returned and wrote to *result;                             *)
(*   paramStatus   what the last MathEvaluationSetParam returned;          *)
(*   fetches    number of MathEvalProcessToken calls of the evaluation;    *)
(*   setBudget  number of MathEvaluationSetParam calls the caller still    *)
(*              makes;                                                     *)
(*   last       what the caller read from the session after the last       *)
(*              MathEvaluationPerform (status, *result, the getters), kept *)
(*              while the bindings stay as they were then;                 *)
(*   steps      number of steps the running evaluation has taken.          *)
(***************************************************************************)
VARIABLES expression, params, cursor, result, roundBracketsCount, error,
          stack, ret, status, outResult, paramStatus, fetches, setBudget, last,
          steps

vars == <<expression, params, cursor, result, roundBracketsCount, error,
          stack, ret, status, outResult, paramStatus, fetches, setBudget, last,
          steps>>

session == <<expression, params, cursor, result, roundBracketsCount, error>>

Top == stack[Len(stack)]
Running(fn, pc) == stack # <<>> /\ Top.fn = fn /\ Top.pc = pc

\* the caller's frame becomes f and the callee's frame is pushed
Call(f, callee) == Append([stack EXCEPT ![Len(stack)] = f], callee)

\* the running call moves on to frame f
Goto(f) == [stack EXCEPT ![Len(stack)] = f]

Pop == SubSeq(stack, 1, Len(stack) - 1)

Returned(v, t) == [value |-> v, token |-> t]

AddendsFrame(brc, beof, bcom, wantsToken) ==
    [fn |-> "MathEvalProcessAddends", pc |-> "factors",
     breakOnRoundBracketsCount |-> brc, breakOnETEof |-> beof,
     breakOnETcom |-> bcom, tokenThatCausedBreak |-> wantsToken,
     leftOp |-> "unset", rightOp |-> "MET_Sum", result |-> Zero]

FactorsFrame(leftValue, op, isExponent) ==
    [fn |-> "MathEvalProcessFactors", pc |-> "token",
     leftValue |-> leftValue, op |-> op, isExponent |-> isExponent,
     token |-> "unset", nextOp |-> "unset", rightValue |-> Zero, sign |-> Zero]

FunctionFrame(func) ==
    [fn |-> "MathEvalProcessFunction", pc |-> "open", func |-> func,
     argno |-> 1, result |-> Zero, count |-> 0]

ExponentiationFrame(base) ==
    [fn |-> "MathEvalProcessExponentiation", pc |-> "call", base |-> base]

PerformFrame == [fn |-> "MathEvaluationPerform", pc |-> "return"]

\* MathEvalProcessToken trying the constants and the function names before
\* the parameters
Tok_KeywordsFirst ==
    MathEvalProcessToken(expression,
        IF TokenSwitch(expression, SkipBlanks(expression, cursor)).token # "MET_Err"
        THEN <<>> ELSE params,
        cursor)

\* One call of MathEvalProcessToken at the cursor.
Tok == MathEvalProcessToken(expression, params, cursor)

(***************************************************************************)
(* The getters, and what a caller reads with them after an evaluation.     *)
(***************************************************************************)
MathEvaluationGetResult(res) == res

\* [error, position]
MathEvaluationGetError(err, cur) ==
    [error |-> err, position |-> IF cur # NULL THEN cur ELSE 0]

Outcome(st, out, res, err, cur) ==
    [status |-> st, result |-> out, stored |-> MathEvaluationGetResult(res),
     error |-> MathEvaluationGetError(err, cur).error,
     position |-> MathEvaluationGetError(err, cur).position]

NoOutcome == Outcome("none", Zero, Zero, "", NULL)

(***************************************************************************)
(* MathEvaluationSetParam.  calloc is taken to succeed.                    *)
(***************************************************************************)
MaxNameLen == 255

Reserved ==
    {<<"e">>, <<"e", "x", "p">>, <<"f", "a", "c", "t">>, <<"p", "i">>,
     <<"p", "o", "w">>, <<"c", "o", "s">>, <<"s", "i", "n">>, <<"t", "a", "n">>,
     <<"l", "o", "g">>, <<"m", "a", "x">>, <<"m", "i", "n">>,
     <<"a", "c", "o", "s">>, <<"a", "s", "i", "n">>, <<"a", "t", "a", "n">>,
     <<"a", "v", "e", "r", "a", "g", "e">>, <<"a", "v", "g">>}

LowerCase ==
    {"a", "b", "c", "d", "e", "f", "g", "h", "i", "j", "k", "l", "m",
     "n", "o", "p", "q", "r", "s", "t", "u", "v", "w", "x", "y", "z"}

UpperCase ==
    {"A", "B", "C", "D", "E", "F", "G", "H", "I", "J", "K", "L", "M",
     "N", "O", "P", "Q", "R", "S", "T", "U", "V", "W", "X", "Y", "Z"}

\* NameCharOk letting a digit stand first
NameCharOk_DigitFirst(c, i) == IsDigit(c) \/ c \in LowerCase \/ c \in UpperCase

\* the test of the loop over name[ i ], i counted from 0
NameCharOk(c, i) == (IsDigit(c) /\ i > 0) \/ c \in LowerCase \/ c \in UpperCase

\* index of the binding called name, 0 when there is none
RECURSIVE FindParam(_, _, _)
FindParam(ps, name, i) ==
    IF i > Len(ps) THEN 0
    ELSE IF ps[i].name = name THEN i
    ELSE FindParam(ps, name, i + 1)

\* the walk over current->next: p goes after ps[i] when that is the last
\* binding or the next one has a shorter name
RECURSIVE InsertAfter(_, _, _)
InsertAfter(ps, p, i) ==
    IF i = Len(ps) THEN Append(ps, p)
    ELSE IF ps[i + 1].len < p.len
         THEN SubSeq(ps, 1, i) \o <<p>> \o SubSeq(ps, i + 1, Len(ps))
         ELSE InsertAfter(ps, p, i + 1)

\* InsertParam without the test of the first binding
InsertParam_NeverFirst(ps, p) ==
    IF ps = <<>> THEN <<p>> ELSE InsertAfter(ps, p, 1)

\* InsertParam putting the new binding last
InsertParam_Last(ps, p) == Append(ps, p)

InsertParam(ps, p) ==
    IF ps = <<>> THEN <<p>>
    ELSE IF ps[1].len < p.len THEN <<p>> \o ps
    ELSE InsertAfter(ps, p, 1)

\* SetParamOutcome without the search for an existing binding
SetParam_AlwaysInserted(ps, name, value) ==
    IF Len(name) = 0 \/ Len(name) > MaxNameLen \/ name \in Reserved
       \/ \E i \in 1..Len(name) : ~NameCharOk(name[i], i - 1)
    THEN [params |-> ps, error |-> "invalid", status |-> "MathEvaluationFailure"]
    ELSE [params |-> InsertParam(ps, [name |-> name, len |-> Len(name), value |-> value]),
          error |-> "keep", status |-> "MathEvaluationSuccess"]

\* [params, error, status]; error "keep" leaves matheval->error as it is
SetParamOutcome(ps, name, value) ==
    LET len == Len(name)
        found == FindParam(ps, name, 1)
        fail(msg) == [params |-> ps, error |-> msg, status |-> "MathEvaluationFailure"]
    IN  IF len = 0 THEN fail("parameter name is empty")
        ELSE IF len > MaxNameLen
             THEN fail("parameter name exceeds 255 characters in length")
        ELSE IF name \in Reserved THEN fail("parameter name is a reserved keyword")
        ELSE IF \E i \in 1..len : ~NameCharOk(name[i], i - 1)
             THEN fail("invalid character in parameter name")
        ELSE IF found # 0
             THEN [params |-> [ps EXCEPT ![found].value = value], error |-> "keep",
                   status |-> "MathEvaluationSuccess"]
        ELSE [params |-> InsertParam(ps, [name |-> name, len |-> len, value |-> value]),
              error |-> "keep", status |-> "MathEvaluationSuccess"]

MathEvaluationSetParam(name, value) ==
    /\ stack = <<>>
    /\ setBudget > 0
    /\ setBudget' = setBudget - 1
    /\ LET o == SetParamOutcome(params, name, value)
       IN  /\ params' = o.params
           /\ error' = IF o.error = "keep" THEN error ELSE o.error
           /\ paramStatus' = o.status
           /\ last' = IF o.params = params THEN last ELSE NoOutcome
    /\ UNCHANGED <<expression, cursor, result, roundBracketsCount, stack, ret,
                   status, outResult, fetches, steps>>

(***************************************************************************)
(* MathEvaluationPerform: the call resets the session and calls the sum    *)
(* level; the return stores the result and the status.                     *)
(***************************************************************************)
\* MathEvaluationPerform_Call leaving the cursor where the last evaluation
\* left it
PerformCall_CursorKept ==
    /\ stack = <<>>
    /\ cursor' = IF cursor = NULL THEN 0 ELSE cursor
    /\ roundBracketsCount' = 0
    /\ result' = Zero
    /\ error' = ErrNone
    /\ fetches' = 0
    /\ stack' = <<PerformFrame, AddendsFrame(-1, TRUE, FALSE, FALSE)>>
    /\ UNCHANGED <<expression, params, ret, status, outResult, paramStatus, setBudget, last>>
    /\ steps' = 0

MathEvaluationPerform_Call ==
    /\ stack = <<>>
    /\ cursor' = 0
    /\ roundBracketsCount' = 0
    /\ result' = Zero
    /\ error' = ErrNone
    /\ fetches' = 0
    /\ stack' = <<PerformFrame, AddendsFrame(-1, TRUE, FALSE, FALSE)>>
    /\ UNCHANGED <<expression, params, ret, status, outResult, paramStatus, setBudget, last>>
    /\ steps' = 0

\* MathEvaluationPerform_Return without the else branch that stores ""
Perform_ReturnKeepingNull ==
    /\ Running("MathEvaluationPerform", "return")
    /\ result' = ret.value
    /\ outResult' = IF error # ErrNone THEN Zero ELSE ret.value
    /\ status' = IF error # ErrNone THEN "MathEvaluationFailure"
                 ELSE "MathEvaluationSuccess"
    /\ stack' = <<>>
    /\ steps' = steps + 1
    /\ last' = Outcome(status', outResult', result', error, cursor)
    /\ UNCHANGED <<expression, params, cursor, roundBracketsCount, ret,
                   paramStatus, fetches, setBudget, error>>

MathEvaluationPerform_Return ==
    /\ Running("MathEvaluationPerform", "return")
    /\ result' = ret.value
    /\ outResult' = IF error # ErrNone THEN Zero ELSE ret.value
    /\ status' = IF error # ErrNone THEN "MathEvaluationFailure"
                 ELSE "MathEvaluationSuccess"
    /\ error' = IF error # ErrNone THEN error ELSE ""
    /\ stack' = <<>>
    /\ steps' = steps + 1
    /\ last' = Outcome(status', outResult', result', error', cursor)
    /\ UNCHANGED <<expression, params, cursor, roundBracketsCount, ret,
                   paramStatus, fetches, setBudget>>

(***************************************************************************)
(* MathEvalProcessAddends.                                                 *)
(***************************************************************************)
\* top of the do loop: leftOp = rightOp, then the call of the product level
Addends_CallFactors ==
    /\ Running("MathEvalProcessAddends", "factors")
    /\ stack' = Call([Top EXCEPT !.pc = "fold", !.leftOp = Top.rightOp],
                     FactorsFrame(One, "MET_Mul", FALSE))
    /\ UNCHANGED <<session, ret, status, outResult, paramStatus, fetches, setBudget, last>>
    /\ steps' = steps + 1

\* the product level has returned: error check, fold, loop test
Addends_Fold ==
    /\ Running("MathEvalProcessAddends", "fold")
    /\ IF error # ErrNone
       THEN /\ stack' = Pop
            /\ ret' = Returned(Zero, "unset")
       ELSE /\ stack' = Goto([Top EXCEPT
                   !.result = IF Top.leftOp = "MET_Sum"
                              THEN Add(Top.result, ret.value)
                              ELSE Sub(Top.result, ret.value),
                   !.rightOp = ret.token,
                   !.pc = IF ret.token \in {"MET_Sum", "MET_Sub"}
                          THEN "factors" ELSE "exit"])
            /\ ret' = ret
    /\ UNCHANGED <<session, status, outResult, paramStatus, fetches, setBudget, last>>
    /\ steps' = steps + 1

\* the message of the switch that follows the exit test
AddendsSwitch(rightOp) ==
    CASE rightOp = "MET_Eof" -> "unexpected end of expression"
      [] rightOp = "MET_rbc" -> "unexpected close round bracket"
      [] rightOp = "MET_com" -> "unexpeced comma"
      [] OTHER -> "unexpeced symbol"

\* AddendsMustExit taking a value that follows the last addend for the end
MustExit_OnValue(f, count) ==
    \/ count = f.breakOnRoundBracketsCount
    \/ (f.breakOnETEof /\ f.rightOp \in {"MET_Eof", "MET_Val"})
    \/ (f.breakOnETcom /\ f.rightOp = "MET_com")

\* the exit test of the sum level
AddendsMustExit(f, count) ==
    \/ count = f.breakOnRoundBracketsCount
    \/ (f.breakOnETEof /\ f.rightOp = "MET_Eof")
    \/ (f.breakOnETcom /\ f.rightOp = "MET_com")

\* Addends_Exit without the test for a negative bracket count
Exit_CountUnchecked ==
    /\ Running("MathEvalProcessAddends", "exit")
    /\ LET f == Top
           count == IF f.rightOp = "MET_rbc" THEN roundBracketsCount - 1
                    ELSE roundBracketsCount
           broke == IF f.tokenThatCausedBreak THEN f.rightOp ELSE "unset"
       IN  /\ roundBracketsCount' = count
           /\ stack' = Pop
           /\ IF AddendsMustExit(f, count)
              THEN IF eexception(f.result)
                   THEN /\ error' = "result is complex or too big"
                        /\ ret' = Returned(Zero, broke)
                   ELSE /\ error' = error
                        /\ ret' = Returned(f.result, broke)
              ELSE /\ error' = AddendsSwitch(f.rightOp)
                   /\ ret' = Returned(Zero, broke)
    /\ UNCHANGED <<expression, params, cursor, result, status, outResult,
                   paramStatus, fetches, setBudget, last>>
    /\ steps' = steps + 1

\* Addends_Exit without the exception test on the result
Exit_ResultUnchecked ==
    /\ Running("MathEvalProcessAddends", "exit")
    /\ LET f == Top
           count == IF f.rightOp = "MET_rbc" THEN roundBracketsCount - 1
                    ELSE roundBracketsCount
           broke == IF f.tokenThatCausedBreak THEN f.rightOp ELSE "unset"
       IN  /\ roundBracketsCount' = count
           /\ stack' = Pop
           /\ IF count < 0
              THEN /\ error' = "unexpected close round bracket"
                   /\ ret' = Returned(Zero, "unset")
              ELSE IF AddendsMustExit(f, count)
              THEN /\ error' = error
                   /\ ret' = Returned(f.result, broke)
              ELSE /\ error' = AddendsSwitch(f.rightOp)
                   /\ ret' = Returned(Zero, broke)
    /\ UNCHANGED <<expression, params, cursor, result, status, outResult,
                   paramStatus, fetches, setBudget, last>>
    /\ steps' = steps + 1

\* Addends_Exit letting the bracket count go down to -1
Exit_CountBelowMinusOne ==
    /\ Running("MathEvalProcessAddends", "exit")
    /\ LET f == Top
           count == IF f.rightOp = "MET_rbc" THEN roundBracketsCount - 1
                    ELSE roundBracketsCount
           broke == IF f.tokenThatCausedBreak THEN f.rightOp ELSE "unset"
       IN  /\ roundBracketsCount' = count
           /\ stack' = Pop
           /\ IF count < -1
              THEN /\ error' = "unexpected close round bracket"
                   /\ ret' = Returned(Zero, "unset")
              ELSE IF AddendsMustExit(f, count)
              THEN IF eexception(f.result)
                   THEN /\ error' = "result is complex or too big"
                        /\ ret' = Returned(Zero, broke)
                   ELSE /\ error' = error
                        /\ ret' = Returned(f.result, broke)
              ELSE /\ error' = AddendsSwitch(f.rightOp)
                   /\ ret' = Returned(Zero, broke)
    /\ UNCHANGED <<expression, params, cursor, result, status, outResult,
                   paramStatus, fetches, setBudget, last>>
    /\ steps' = steps + 1

\* after the loop: close bracket count, exit test, error switch
Addends_Exit ==
    /\ Running("MathEvalProcessAddends", "exit")
    /\ LET f == Top
           count == IF f.rightOp = "MET_rbc" THEN roundBracketsCount - 1
                    ELSE roundBracketsCount
           broke == IF f.tokenThatCausedBreak THEN f.rightOp ELSE "unset"
       IN  /\ roundBracketsCount' = count
           /\ stack' = Pop
           /\ IF count < 0
              THEN /\ error' = "unexpected close round bracket"
                   /\ ret' = Returned(Zero, "unset")
              ELSE IF AddendsMustExit(f, count)
              THEN IF eexception(f.result)
                   THEN /\ error' = "result is complex or too big"
                        /\ ret' = Returned(Zero, broke)
                   ELSE /\ error' = error
                        /\ ret' = Returned(f.result, broke)
              ELSE /\ error' = AddendsSwitch(f.rightOp)
                   /\ ret' = Returned(Zero, broke)
    /\ UNCHANGED <<expression, params, cursor, result, status, outResult,
                   paramStatus, fetches, setBudget, last>>
    /\ steps' = steps + 1

(***************************************************************************)
(* MathEvalProcessFactorial: [value, rightOp, cursor, error, fetched].     *)
(* error is the message it records, ErrNone when it records none; fetched  *)
(* tells whether it called the tokenizer.                                  *)
(***************************************************************************)
NegativeFactorial == "attempt to mathevaluate factorial of negative number"

\* r is tgamma( value + 1 ); the token after the '!' is fetched
FactorialDone(r, t) ==
    [value |-> IF t.error # ErrNone THEN Zero ELSE r,
     rightOp |-> t.token, cursor |-> t.cursor, error |-> t.error, fetched |-> TRUE]

\* FactorialChecked recording the message of the product level
FactorialChecked_TooBig(expr, ps, cur, r) ==
    IF eexception(r)
    THEN [value |-> Zero, rightOp |-> "unset", cursor |-> cur,
          error |-> "result is too big", fetched |-> FALSE]
    ELSE FactorialDone(r, MathEvalProcessToken(expr, ps, cur))

FactorialChecked(expr, ps, cur, r) ==
    IF eexception(r)
    THEN [value |-> Zero, rightOp |-> "unset", cursor |-> cur,
          error |-> "result is complex or too big", fetched |-> FALSE]
    ELSE FactorialDone(r, MathEvalProcessToken(expr, ps, cur))

MathEvalProcessFactorial(expr, ps, cur, value) ==
    IF Lt(value, Zero)
    THEN [value |-> Zero, rightOp |-> "MET_Err", cursor |-> cur,
          error |-> NegativeFactorial, fetched |-> FALSE]
    ELSE FactorialChecked(expr, ps, cur, tgamma(Add(value, One)))

(***************************************************************************)
(* MathEvalProcessFactors.                                                 *)
(***************************************************************************)
\* Fetch leaving the cursor where it is
Fetch_CursorKept(t) ==
    /\ cursor' = cursor
    /\ error' = IF t.error # ErrNone THEN t.error ELSE error
    /\ fetches' = fetches + 1

\* a token fetch by the running call: cursor, error and the fetch count
Fetch(t) ==
    /\ cursor' = t.cursor
    /\ error' = IF t.error # ErrNone THEN t.error ELSE error
    /\ fetches' = fetches + 1

\* return 0 to the caller, the output pointer not written
ReturnZero ==
    /\ stack' = Pop
    /\ ret' = Returned(Zero, "unset")

\* Factors_Token evaluating what follows a sign by a call of its own
Token_SignByRecursion ==
    /\ Running("MathEvalProcessFactors", "token")
    /\ \E t \in {Tok} :
          /\ Fetch(t)
          /\ IF t.error # ErrNone
             THEN ReturnZero
             ELSE IF t.token \in {"MET_Sub", "MET_Sum"}
             THEN /\ stack' = Call([Top EXCEPT
                         !.sign = IF t.token = "MET_Sub" THEN MinusOne ELSE One,
                         !.pc = "power"], FactorsFrame(One, "MET_Mul", TRUE))
                  /\ ret' = ret
             ELSE /\ stack' = Goto([Top EXCEPT !.token = t.token,
                                                !.rightValue = t.value,
                                                !.sign = One,
                                                !.pc = "primary"])
                  /\ ret' = ret
    /\ UNCHANGED <<expression, params, result, roundBracketsCount, status,
                   outResult, paramStatus, setBudget, last>>
    /\ steps' = steps + 1

\* top of the do loop: the first token of the factor; a sign is remembered
Factors_Token ==
    /\ Running("MathEvalProcessFactors", "token")
    /\ \E t \in {Tok} :
          /\ Fetch(t)
          /\ IF t.error # ErrNone
             THEN ReturnZero
             ELSE /\ stack' = Goto([Top EXCEPT
                         !.token = t.token,
                         !.rightValue = t.value,
                         !.sign = IF t.token = "MET_Sub" THEN MinusOne ELSE One,
                         !.pc = IF t.token \in {"MET_Sub", "MET_Sum"}
                                THEN "signed" ELSE "primary"])
                  /\ ret' = ret
    /\ UNCHANGED <<expression, params, result, roundBracketsCount, status,
                   outResult, paramStatus, setBudget, last>>
    /\ steps' = steps + 1

\* the token that follows a unary sign
Factors_Signed ==
    /\ Running("MathEvalProcessFactors", "signed")
    /\ \E t \in {Tok} :
          /\ Fetch(t)
          /\ IF t.error # ErrNone
             THEN ReturnZero
             ELSE /\ stack' = Goto([Top EXCEPT !.token = t.token,
                                               !.rightValue = t.value,
                                               !.pc = "primary"])
                  /\ ret' = ret
    /\ UNCHANGED <<expression, params, result, roundBracketsCount, status,
                   outResult, paramStatus, setBudget, last>>
    /\ steps' = steps + 1

\* open bracket, function name, or else the token must be a value
Factors_Primary ==
    /\ Running("MathEvalProcessFactors", "primary")
    /\ IF Top.token = "MET_rbo"
       THEN /\ roundBracketsCount' = roundBracketsCount + 1
            /\ stack' = Call([Top EXCEPT !.pc = "bracket"],
                             AddendsFrame(roundBracketsCount' - 1, FALSE, FALSE, FALSE))
            /\ UNCHANGED <<error, ret>>
       ELSE IF Top.token \in FunctionTokens
       THEN /\ stack' = Call([Top EXCEPT !.pc = "function"], FunctionFrame(Top.token))
            /\ UNCHANGED <<roundBracketsCount, error, ret>>
       ELSE IF Top.token # "MET_Val"
       THEN /\ error' = "expected value"
            /\ ReturnZero
            /\ UNCHANGED roundBracketsCount
       ELSE /\ stack' = Goto([Top EXCEPT !.pc = "lookahead"])
            /\ UNCHANGED <<roundBracketsCount, error, ret>>
    /\ UNCHANGED <<expression, params, cursor, result, status, outResult,
                   paramStatus, fetches, setBudget, last>>
    /\ steps' = steps + 1

\* Factors_AfterBracket without the test of matheval->error
AfterBracket_Unchecked ==
    /\ Running("MathEvalProcessFactors", "bracket")
    /\ stack' = Goto([Top EXCEPT !.rightValue = ret.value,
                                 !.token = "MET_Val",
                                 !.pc = "lookahead"])
    /\ ret' = ret
    /\ UNCHANGED <<session, status, outResult, paramStatus, fetches, setBudget, last>>
    /\ steps' = steps + 1

\* the bracketed expression has been evaluated
Factors_AfterBracket ==
    /\ Running("MathEvalProcessFactors", "bracket")
    /\ IF error # ErrNone
       THEN ReturnZero
       ELSE /\ stack' = Goto([Top EXCEPT !.rightValue = ret.value,
                                         !.token = "MET_Val",
                                         !.pc = "lookahead"])
            /\ ret' = ret
    /\ UNCHANGED <<session, status, outResult, paramStatus, fetches, setBudget, last>>
    /\ steps' = steps + 1

\* the function call has been evaluated
Factors_AfterFunction ==
    /\ Running("MathEvalProcessFactors", "function")
    /\ IF error # ErrNone
       THEN ReturnZero
       ELSE /\ stack' = Goto([Top EXCEPT !.rightValue = ret.value,
                                         !.token = "MET_Val",
                                         !.pc = "lookahead"])
            /\ ret' = ret
    /\ UNCHANGED <<session, status, outResult, paramStatus, fetches, setBudget, last>>
    /\ steps' = steps + 1

\* where the factor goes once the token after it is known
AfterNextOp(nextOp) ==
    IF nextOp = "MET_Fct" THEN "factorial"
    ELSE IF nextOp = "MET_Exc" THEN "exponent"
    ELSE "muldiv"

\* Factors_Lookahead leaving a '!' that follows an exponent to the caller
Lookahead_NoFactorialInExponent ==
    /\ Running("MathEvalProcessFactors", "lookahead")
    /\ \E t \in {Tok} :
          /\ Fetch(t)
          /\ IF t.error # ErrNone
             THEN ReturnZero
             ELSE /\ stack' = Goto([Top EXCEPT
                         !.nextOp = t.token,
                         !.pc = IF Top.isExponent /\ t.token = "MET_Fct"
                                THEN "muldiv" ELSE AfterNextOp(t.token)])
                  /\ ret' = ret
    /\ UNCHANGED <<expression, params, result, roundBracketsCount, status,
                   outResult, paramStatus, setBudget, last>>
    /\ steps' = steps + 1

\* the token after the value is fetched beforehand
Factors_Lookahead ==
    /\ Running("MathEvalProcessFactors", "lookahead")
    /\ \E t \in {Tok} :
          /\ Fetch(t)
          /\ IF t.error # ErrNone
             THEN ReturnZero
             ELSE /\ stack' = Goto([Top EXCEPT !.nextOp = t.token,
                                               !.pc = AfterNextOp(t.token)])
                  /\ ret' = ret
    /\ UNCHANGED <<expression, params, result, roundBracketsCount, status,
                   outResult, paramStatus, setBudget, last>>
    /\ steps' = steps + 1

\* nextOp == MET_Fct: the call of MathEvalProcessFactorial
Factors_Factorial ==
    /\ Running("MathEvalProcessFactors", "factorial")
    /\ \E r \in {MathEvalProcessFactorial(expression, params, cursor, Top.rightValue)} :
           /\ cursor' = r.cursor
           /\ error' = IF r.error # ErrNone THEN r.error ELSE error
           /\ fetches' = IF r.fetched THEN fetches + 1 ELSE fetches
           /\ IF r.error # ErrNone
              THEN ReturnZero
              ELSE /\ stack' = Goto([Top EXCEPT
                          !.rightValue = r.value,
                          !.nextOp = r.rightOp,
                          !.pc = IF r.rightOp = "MET_Exc" THEN "exponent" ELSE "muldiv"])
                   /\ ret' = ret
    /\ UNCHANGED <<expression, params, result, roundBracketsCount, status,
                   outResult, paramStatus, setBudget, last>>
    /\ steps' = steps + 1

\* Factors_CallExponentiation with the sign applied to the base
CallExponentiation_SignedBase ==
    /\ Running("MathEvalProcessFactors", "exponent")
    /\ stack' = Call([Top EXCEPT !.pc = "power", !.sign = One],
                     ExponentiationFrame(Mul(Top.rightValue, Top.sign)))
    /\ UNCHANGED <<session, ret, status, outResult, paramStatus, fetches, setBudget, last>>
    /\ steps' = steps + 1

\* nextOp == MET_Exc: the call of MathEvalProcessExponentiation
Factors_CallExponentiation ==
    /\ Running("MathEvalProcessFactors", "exponent")
    /\ stack' = Call([Top EXCEPT !.pc = "power"], ExponentiationFrame(Top.rightValue))
    /\ UNCHANGED <<session, ret, status, outResult, paramStatus, fetches, setBudget, last>>
    /\ steps' = steps + 1

\* the power has been evaluated
Factors_AfterExponentiation ==
    /\ Running("MathEvalProcessFactors", "power")
    /\ IF error # ErrNone
       THEN ReturnZero
       ELSE /\ stack' = Goto([Top EXCEPT !.rightValue = ret.value,
                                         !.nextOp = ret.token,
                                         !.pc = "muldiv"])
            /\ ret' = ret
    /\ UNCHANGED <<session, status, outResult, paramStatus, fetches, setBudget, last>>
    /\ steps' = steps + 1

\* MulDivOutcome dividing without looking at the divisor
MulDiv_DivisorUnchecked(leftValue, op, rightValue, sign) ==
    IF op = "MET_Mul"
    THEN [value |-> Mul(Mul(leftValue, rightValue), sign), error |-> ErrNone]
    ELSE [value |-> Mul(Div(leftValue, rightValue), sign), error |-> ErrNone]

\* leftValue after the multiplication or the division; "division by zero"
\* is found before dividing
MulDivOutcome(leftValue, op, rightValue, sign) ==
    IF op = "MET_Mul"
    THEN [value |-> Mul(Mul(leftValue, rightValue), sign), error |-> ErrNone]
    ELSE IF EqC(rightValue, Zero)
    THEN [value |-> Zero, error |-> "division by zero"]
    ELSE [value |-> Mul(Div(leftValue, rightValue), sign), error |-> ErrNone]

\* Factors_MulDiv without op = nextOp at the end of the loop body
MulDiv_KeepingOp ==
    /\ Running("MathEvalProcessFactors", "muldiv")
    /\ \E f \in {Top}, o \in {MulDivOutcome(Top.leftValue, Top.op, Top.rightValue, Top.sign)} :
           IF o.error # ErrNone
           THEN /\ error' = o.error
                /\ ReturnZero
           ELSE IF eexception(o.value)
           THEN /\ error' = "result is too big"
                /\ ReturnZero
           ELSE IF f.nextOp \in {"MET_Mul", "MET_Div"} /\ ~f.isExponent
           THEN /\ stack' = Goto([f EXCEPT !.leftValue = o.value, !.pc = "token"])
                /\ UNCHANGED <<error, ret>>
           ELSE /\ stack' = Pop
                /\ ret' = Returned(o.value, f.nextOp)
                /\ error' = error
    /\ UNCHANGED <<expression, params, cursor, result, roundBracketsCount, status,
                   outResult, paramStatus, fetches, setBudget, last>>
    /\ steps' = steps + 1

\* multiplication or division, exception test, loop test
Factors_MulDiv ==
    /\ Running("MathEvalProcessFactors", "muldiv")
    /\ \E f \in {Top}, o \in {MulDivOutcome(Top.leftValue, Top.op, Top.rightValue, Top.sign)} :
           IF o.error # ErrNone
           THEN /\ error' = o.error
                /\ ReturnZero
           ELSE IF eexception(o.value)
           THEN /\ error' = "result is too big"
                /\ ReturnZero
           ELSE IF f.nextOp \in {"MET_Mul", "MET_Div"} /\ ~f.isExponent
           THEN /\ stack' = Goto([f EXCEPT !.leftValue = o.value, !.op = f.nextOp,
                                           !.pc = "token"])
                /\ UNCHANGED <<error, ret>>
           ELSE /\ stack' = Pop
                /\ ret' = Returned(o.value, f.nextOp)
                /\ error' = error
    /\ UNCHANGED <<expression, params, cursor, result, roundBracketsCount, status,
                   outResult, paramStatus, fetches, setBudget, last>>
    /\ steps' = steps + 1

(***************************************************************************)
(* MathEvalProcessExponentiation.                                          *)
(***************************************************************************)
\* Exponentiation_CallFactors with isExponent not set
CallFactors_NotAsExponent ==
    /\ Running("MathEvalProcessExponentiation", "call")
    /\ stack' = Call([Top EXCEPT !.pc = "pow"], FactorsFrame(One, "MET_Mul", FALSE))
    /\ UNCHANGED <<session, ret, status, outResult, paramStatus, fetches, setBudget, last>>
    /\ steps' = steps + 1

\* the exponent: the product level with isExponent set
Exponentiation_CallFactors ==
    /\ Running("MathEvalProcessExponentiation", "call")
    /\ stack' = Call([Top EXCEPT !.pc = "pow"], FactorsFrame(One, "MET_Mul", TRUE))
    /\ UNCHANGED <<session, ret, status, outResult, paramStatus, fetches, setBudget, last>>
    /\ steps' = steps + 1

\* the exponent has been evaluated: pow and the exception test
Exponentiation_Pow ==
    /\ Running("MathEvalProcessExponentiation", "pow")
    /\ stack' = Pop
    /\ IF error # ErrNone
       THEN /\ ret' = Returned(Zero, ret.token)
            /\ error' = error
       ELSE \E r \in {pow(Top.base, ret.value)} :
               IF eexception(r)
               THEN /\ error' = "result is complex or too big"
                    /\ ret' = Returned(Zero, ret.token)
               ELSE /\ ret' = Returned(r, ret.token)
                    /\ error' = error
    /\ UNCHANGED <<expression, params, cursor, result, roundBracketsCount, status,
                   outResult, paramStatus, fetches, setBudget, last>>
    /\ steps' = steps + 1

(***************************************************************************)
(* MathEvalProcessFunction.                                                *)
(***************************************************************************)
OneArgument ==
    {"MET_Sin", "MET_Cos", "MET_Tan", "MET_ASi", "MET_ACo", "MET_ATa",
     "MET_Fac", "MET_Exp"}

\* ManyArguments without the average
ManyArguments_NoAverage == {"MET_Max", "MET_Min"}

ManyArguments == {"MET_Max", "MET_Min", "MET_Avg"}

UINT16 == 65536

\* Function_Open with the open round bracket not counted
Open_NotCounted ==
    /\ Running("MathEvalProcessFunction", "open")
    /\ fetches' = fetches + 1
    /\ \E t \in {Tok} :
          /\ cursor' = t.cursor
          /\ IF t.error # ErrNone
             THEN /\ error' = t.error
                  /\ ReturnZero
                  /\ UNCHANGED roundBracketsCount
             ELSE IF t.token # "MET_rbo"
             THEN /\ error' = "expected open round bracket after function name"
                  /\ ReturnZero
                  /\ UNCHANGED roundBracketsCount
             ELSE /\ roundBracketsCount' = roundBracketsCount
                  /\ stack' = Goto([Top EXCEPT !.pc = "argument"])
                  /\ UNCHANGED <<error, ret>>
    /\ UNCHANGED <<expression, params, result, status, outResult, paramStatus,
                   setBudget, last>>
    /\ steps' = steps + 1

\* eat the open round bracket and count it
Function_Open ==
    /\ Running("MathEvalProcessFunction", "open")
    /\ fetches' = fetches + 1
    /\ \E t \in {Tok} :
          /\ cursor' = t.cursor
          /\ IF t.error # ErrNone
             THEN /\ error' = t.error
                  /\ ReturnZero
                  /\ UNCHANGED roundBracketsCount
             ELSE IF t.token # "MET_rbo"
             THEN /\ error' = "expected open round bracket after function name"
                  /\ ReturnZero
                  /\ UNCHANGED roundBracketsCount
             ELSE /\ roundBracketsCount' = roundBracketsCount + 1
                  /\ stack' = Goto([Top EXCEPT !.pc = "argument"])
                  /\ UNCHANGED <<error, ret>>
    /\ UNCHANGED <<expression, params, result, status, outResult, paramStatus,
                   setBudget, last>>
    /\ steps' = steps + 1

\* ArgumentFrame with the first argument of log evaluated as that of pow
ArgumentFrame_LogAsPow(func, argno, count) ==
    IF func \in {"MET_Pow", "MET_Log"} /\ argno = 1 THEN AddendsFrame(-1, FALSE, TRUE, TRUE)
    ELSE IF func \in ManyArguments THEN AddendsFrame(count - 1, FALSE, TRUE, TRUE)
    ELSE AddendsFrame(count - 1, FALSE, FALSE, FALSE)

\* the sum-level call that evaluates argument argno of func
ArgumentFrame(func, argno, count) ==
    IF func = "MET_Pow" /\ argno = 1 THEN AddendsFrame(-1, FALSE, TRUE, FALSE)
    ELSE IF func = "MET_Log" /\ argno = 1 THEN AddendsFrame(count - 1, FALSE, TRUE, TRUE)
    ELSE IF func \in ManyArguments THEN AddendsFrame(count - 1, FALSE, TRUE, TRUE)
    ELSE AddendsFrame(count - 1, FALSE, FALSE, FALSE)

Function_CallArgument ==
    /\ Running("MathEvalProcessFunction", "argument")
    /\ stack' = Call([Top EXCEPT !.pc = "evaluated"],
                     ArgumentFrame(Top.func, Top.argno, roundBracketsCount))
    /\ UNCHANGED <<session, ret, status, outResult, paramStatus, fetches, setBudget, last>>
    /\ steps' = steps + 1

\* the functions of one argument, MET_Fac apart
Apply(func, v) ==
    CASE func = "MET_Sin" -> sin(v)
      [] func = "MET_Cos" -> cos(v)
      [] func = "MET_Tan" -> tan(v)
      [] func = "MET_ASi" -> asin(v)
      [] func = "MET_ACo" -> acos(v)
      [] func = "MET_ATa" -> atan(v)
      [] func = "MET_Exp" -> exp(v)

\* What the switch does with argument argno, whose value is v and whose
\* sum-level call handed back the token tok: [more, result, count, error].
\* more: another argument is evaluated; error: the message recorded here.
FunctionStep(func, argno, acc, count, v, tok) ==
    LET done(r) == [more |-> FALSE, result |-> r, count |-> count, error |-> ErrNone]
        next(r, c) == [more |-> TRUE, result |-> r, count |-> c, error |-> ErrNone]
        folded == IF argno = 1 THEN v
                  ELSE IF func = "MET_Max" THEN (IF Gt(v, acc) THEN v ELSE acc)
                  ELSE IF func = "MET_Min" THEN (IF Lt(v, acc) THEN v ELSE acc)
                  ELSE Add(acc, v)
        n == IF argno = 1 THEN 1 ELSE (count + 1) % UINT16
    IN  IF func = "MET_Fac"
        THEN IF Lt(v, Zero)
             THEN [more |-> FALSE, result |-> v, count |-> count,
                   error |-> NegativeFactorial]
             ELSE done(tgamma(Add(One, v)))
        ELSE IF func \in OneArgument THEN done(Apply(func, v))
        ELSE IF func = "MET_Pow"
        THEN (IF argno = 1 THEN next(v, count) ELSE done(pow(acc, v)))
        ELSE IF func = "MET_Log"
        THEN IF argno = 1
             THEN (IF tok = "MET_rbc" THEN done(log(v)) ELSE next(v, count))
             ELSE done(Div(log(v), log(acc)))
        ELSE IF func \in {"MET_Max", "MET_Min"}
        THEN (IF tok = "MET_com" THEN next(folded, count) ELSE done(folded))
        ELSE IF func = "MET_Avg"
        THEN (IF tok = "MET_com" THEN next(folded, n)
              ELSE [more |-> FALSE, result |-> Div(folded, Q(n, 1)), count |-> n,
                    error |-> ErrNone])
        ELSE done(Zero)

\* an argument has been evaluated: the rest of the case of the switch and,
\* after the last argument, the exception test on the result
Function_AfterArgument ==
    /\ Running("MathEvalProcessFunction", "evaluated")
    /\ IF error # ErrNone
       THEN /\ ReturnZero
            /\ error' = error
       ELSE \E o \in {FunctionStep(Top.func, Top.argno, Top.result, Top.count,
                                    ret.value, ret.token)} :
               IF o.more
               THEN /\ stack' = Goto([Top EXCEPT !.result = o.result, !.count = o.count,
                                                 !.argno = Top.argno + 1,
                                                 !.pc = "argument"])
                    /\ UNCHANGED <<error, ret>>
               ELSE /\ stack' = Pop
                    /\ IF eexception(o.result)
                       THEN /\ error' = "result is complex or too big"
                            /\ ret' = Returned(Zero, "unset")
                       ELSE /\ error' = IF o.error # ErrNone THEN o.error ELSE error
                            /\ ret' = Returned(o.result, "unset")
    /\ UNCHANGED <<expression, params, cursor, result, roundBracketsCount, status,
                   outResult, paramStatus, fetches, setBudget, last>>
    /\ steps' = steps + 1

(***************************************************************************)
(* The session after MathEvaluationNew( text ), and a caller that binds    *)
(* parameters at most `sets` times.                                        *)
(***************************************************************************)
InitWith(text, sets) ==
    /\ expression = text
    /\ params = <<>>
    /\ cursor = NULL
    /\ result = Zero
    /\ roundBracketsCount = 0
    /\ error = ""
    /\ stack = <<>>
    /\ ret = Returned(Zero, "unset")
    /\ status = "none"
    /\ outResult = Zero
    /\ paramStatus = "none"
    /\ fetches = 0
    /\ setBudget = sets
    /\ last = NoOutcome
    /\ steps = 0

(***************************************************************************)
(* The callers.  A caller creates a session for a text, binds parameters   *)
(* and evaluates.  The texts are expressions like those of the test suite  *)
(* that between them reach every procedure, every text of up to            *)
(* MaxLex lexemes of Lexemes, every text of up to MaxBrackets lexemes of   *)
(* BracketLexemes, and the families the properties below are about.        *)
(***************************************************************************)
ParamNames == {<<"x">>, <<"y">>}
ParamValues == {Q(-2, 1), Zero, Q(3, 1)}

MaxSets == 1
MaxLex == 4
MaxBrackets == 5

RECURSIVE Words(_, _)
Words(A, n) ==
    IF n = 0 THEN {<<>>}
    ELSE LET W == Words(A, n - 1) IN W \cup {w \o a : w \in W, a \in A}

Lexemes ==
    {<<"2">>, <<"-">>, <<"/">>, <<"^">>, <<"!">>, <<"(">>, <<")">>, <<"$">>}

BracketLexemes ==
    {<<"(">>, <<")">>, <<"1">>, <<",">>, <<"m", "a", "x", "(">>}

Corpus ==
    {<<"2", "^", "3", "!">>,
     <<"-", "f", "a", "c", "t", "(", "4", ")">>,
     <<"p", "o", "w", "(", "2", ",", "3", ")">>,
     <<"l", "o", "g", "(", "e", ",", "3", ")">>,
     <<"s", "i", "n", "(", "p", "i", "/", "2", ")">>,
     <<"a", "v", "e", "r", "a", "g", "e", "(", "1", ",", "2", ",", "3", ")">>,
     <<"1", "+", "(", "2", "*", "(", "3", "+", "(", "4", "+", "5", "+", "6", ")", ")", "-", "1", ")", "+", "6">>,
     <<"m", "a", "x">>,
     <<"1", "2", "E", "2">>,
     <<" ", "1", " ", "+", " ", "2", " ">>,
     <<"5", "+", "-", "2", "^", "2">>,
     <<"0", "x", "1", "A">>,
     <<"m", "i", "n", "(", "3", ",", "-", "1", ")">>,
     <<"2", "^", "-", "1", "/", "3">>,
     <<"1", "+", "2", ")", "*", "3">>,
     <<"1", "+", "(", "2", "*", "3">>}

ParamCorpus ==
    {<<"x", "^", "2", "+", "y">>,
     <<"1", "/", "x">>,
     <<"(", "x", ")", "!">>,
     <<"f", "a", "c", "t", "(", "x", ")">>}


\* operands of the families, each with the value it denotes
Operand(text, value) == [text |-> text, value |-> value]

Operands ==
    {Operand(<<"0">>, Zero), Operand(<<"2">>, Q(2, 1)), Operand(<<"3">>, Q(3, 1)),
     Operand(<<".", "5">>, Q(1, 2)), Operand(<<"(", "-", "2", ")">>, Q(-2, 1))}

\* a sign and its factor: -a^b, -a!, a+-b^c, a*-b, a^-b
NegPow(a, b) == <<"-">> \o a \o <<"^">> \o b
NegFact(a) == <<"-">> \o a \o <<"!">>
PlusNegPow(a, b, c) == a \o <<"+", "-">> \o b \o <<"^">> \o c
TimesNeg(a, b) == a \o <<"*", "-">> \o b
PowNeg(a, b) == a \o <<"^", "-">> \o b

\* the right operand of ^: a^b^c, a^-b/c, a^b*c
PowPow(a, b, c) == a \o <<"^">> \o b \o <<"^">> \o c
PowNegDiv(a, b, c) == a \o <<"^", "-">> \o b \o <<"/">> \o c
PowTimes(a, b, c) == a \o <<"^">> \o b \o <<"*">> \o c

\* the two binary levels: a+b*c, a-b-c, a/b/c, a/b*c
PlusTimes(a, b, c) == a \o <<"+">> \o b \o <<"*">> \o c
MinusMinus(a, b, c) == a \o <<"-">> \o b \o <<"-">> \o c
DivDiv(a, b, c) == a \o <<"/">> \o b \o <<"/">> \o c
DivTimes(a, b, c) == a \o <<"/">> \o b \o <<"*">> \o c

\* factorial in exponent position: a^b!
PowFact(a, b) == a \o <<"^">> \o b \o <<"!">>

PrecedenceTexts ==
    LET T == {o.text : o \in Operands}
    IN  UNION {{NegPow(a, b), TimesNeg(a, b), PowNeg(a, b), PowFact(a, b)} : a, b \in T}
        \cup {NegFact(a) : a \in T}
        \cup UNION {{PlusNegPow(a, b, c), PowPow(a, b, c), PowNegDiv(a, b, c),
                     PowTimes(a, b, c), PlusTimes(a, b, c), MinusMinus(a, b, c),
                     DivDiv(a, b, c), DivTimes(a, b, c)} : a, b, c \in T}

\* divisions: what stands before the dividend, the dividend, the divisor,
\* and what follows the divisor
DivisionPrefixes == {<<>>, <<"(">>, <<"2", "*">>, <<"1", "-">>, <<"2", "^">>}
Dividends == {<<"1">>, <<"0">>}
ZeroDivisors ==
    {<<"0">>, <<"-", "0">>, <<"(", "0", ")">>, <<"(", "1", "-", "1", ")">>,
     <<"0", "^", "2">>, <<"s", "i", "n", "(", "0", ")">>, <<"0", ".", "0">>}
OtherDivisors == {<<"2">>, <<"0", "!">>, <<"0", "^", "0">>}
TokenSuffixes ==
    {<<>>, <<" ">>, <<"+", "1">>, <<"*", "2">>, <<"/", "2">>, <<")">>, <<",">>,
     <<" ", "2">>, <<"(">>}
BrokenSuffixes == {<<"$">>, <<"+", "+", "1">>, <<" ", "?">>}

Division(p, a, z, s) == p \o a \o <<"/">> \o z \o s

DivisionTexts ==
    {Division(p, a, z, s) : p \in DivisionPrefixes, a \in Dividends,
                            z \in ZeroDivisors \cup OtherDivisors \cup {<<"x">>},
                            s \in TokenSuffixes \cup BrokenSuffixes}

\* factorials: (v)! and fact(v)
FactorialArguments ==
    {Operand(<<"-", "2">>, Q(-2, 1)), Operand(<<"-", ".", "5">>, Q(-1, 2)),
     Operand(<<"1", "-", "3">>, Q(-2, 1)), Operand(<<"0">>, Zero),
     Operand(<<".", "5">>, Q(1, 2)), Operand(<<"3">>, Q(3, 1))}
Postfix(v) == <<"(">> \o v \o <<")", "!">>
Fact(v) == <<"f", "a", "c", "t", "(">> \o v \o <<")">>
FactorialPrefixes == {<<>>, <<"1", "+">>, <<"2", "^">>, <<"-">>}

FactorialTexts ==
    {p \o form : p \in FactorialPrefixes,
                 form \in UNION {{Postfix(v.text), Fact(v.text)} : v \in FactorialArguments}}

\* function calls with 0..MaxArgs arguments
MaxArgs == 3
FunctionNames ==
    {<<"s", "i", "n">>,
     <<"c", "o", "s">>,
     <<"t", "a", "n">>,
     <<"a", "s", "i", "n">>,
     <<"a", "c", "o", "s">>,
     <<"a", "t", "a", "n">>,
     <<"e", "x", "p">>,
     <<"f", "a", "c", "t">>,
     <<"p", "o", "w">>,
     <<"l", "o", "g">>,
     <<"m", "a", "x">>,
     <<"m", "i", "n">>,
     <<"a", "v", "e", "r", "a", "g", "e">>,
     <<"a", "v", "g">>}
Arguments ==
    {Operand(<<"2">>, Q(2, 1)), Operand(<<".", "5">>, Q(1, 2)),
     Operand(<<"(", "-", "2", ")">>, Q(-2, 1))}

RECURSIVE ArgumentLists(_)
ArgumentLists(n) ==
    IF n = 0 THEN {<<>>}
    ELSE LET L == ArgumentLists(n - 1)
         IN  L \cup {Append(l, a) : l \in {m \in L : Len(m) = n - 1}, a \in Arguments}

RECURSIVE Joined(_)
Joined(args) ==
    IF args = <<>> THEN <<>>
    ELSE IF Len(args) = 1 THEN args[1].text
    ELSE args[1].text \o <<",">> \o Joined(Tail(args))

FunctionCall(name, args) == name \o <<"(">> \o Joined(args) \o <<")">>

FunctionTexts ==
    {FunctionCall(name, args) : name \in FunctionNames, args \in ArgumentLists(MaxArgs)}

\* unary signs: what stands before the operand, blanks, a sign, blanks, a
\* second sign or none, and the operand
Blanks == {<<>>, <<" ">>, <<"\t", "\n">>}
SignPrefixes ==
    {<<>>, <<"2", "+">>, <<"2", "-">>, <<"2", "*">>, <<"2", "/">>, <<"2", "^">>}
Signs == {<<"+">>, <<"-">>}

Signed(p, b1, s, b2, t) == p \o b1 \o s \o b2 \o t \o <<"3">>

SignTexts ==
    {Signed(p, b1, s, b2, t) : p \in SignPrefixes, b1 \in Blanks, s \in Signs,
                               b2 \in Blanks, t \in Signs \cup {<<>>}}

\* parameter names, acceptable or not, and a text that uses some of them
LongName(n) == [i \in 1..n |-> "a"]

NameSamples ==
    {<<"a">>, <<"P", "i">>, <<"z", "9">>, <<"E">>, LongName(MaxNameLen),
     <<>>, <<"9", "z">>, <<"a", "_">>, <<"a", ".", "b">>, <<" ", "a">>,
     LongName(MaxNameLen + 1)} \cup Reserved

NameTexts == {<<"P", "i", "+", "a">>}

\* names that are prefixes of one another, and texts that use them
PrefixNames == {<<"a">>, <<"a", "b">>, <<"a", "b", "c">>}
PrefixValues == {Q(2, 1), Q(3, 1)}
PrefixTexts ==
    {<<"a", "b", "c">>, <<"a", "b", "*", "a">>,
     <<"2", "^", " ", "a", "b", "c", "-", "a">>}

\* names that are beginnings or continuations of reserved identifiers, the
\* identifiers themselves, and texts that spell constants and functions
KeywordNames ==
    {<<"s">>, <<"p">>, <<"m", "a">>, <<"s", "i", "n", "x">>, <<"s", "i", "n">>,
     <<"p", "i">>}

KeywordTexts ==
    {<<"s", "i", "n", "(", "0", ")">>, <<"p", "i">>, <<"2", "*", " ", "p", "i">>,
     <<"m", "a", "x", "(", "1", ",", "2", ")">>, <<"s", "i", "n", "x">>,
     <<"p", "o", "w", "(", "2", ",", "1", ")">>}

\* sequences of tokens, each with the value it denotes when its tokens are
\* read one by one (NaN when it denotes none), written with a run of blanks
\* in some of the gaps: gap 0 is before the first token, gap i after token i
TokenLists ==
    {Operand(<<<<"2">>, <<"+">>, <<"3">>>>, Q(5, 1)),
     Operand(<<<<"-">>, <<"2">>, <<"^">>, <<"2">>, <<"!">>>>, Q(-4, 1)),
     Operand(<<<<"m", "a", "x">>, <<"(">>, <<"1">>, <<",">>, <<"3">>, <<")">>>>, Q(3, 1)),
     Operand(<<<<"f", "a", "c", "t">>, <<"(">>, <<"3">>, <<")">>, <<"!">>>>, Q(720, 1)),
     Operand(<<<<"p", "i">>, <<"-">>, <<"e">>>>, Sub(M_PI, M_E)),
     Operand(<<<<"(">>, <<"2">>, <<")">>, <<"/">>, <<"0">>>>, NaN),
     Operand(<<<<"2">>, <<"+">>, <<"+">>, <<"3">>>>, NaN),
     Operand(<<<<"2">>, <<"3">>>>, NaN),
     Operand(<<<<"1">>, <<"e">>, <<"2">>>>, NaN)}

BlankRuns == Blanks \cup {<<"\r">>}

RECURSIVE SpacedFrom(_, _, _, _)
SpacedFrom(tokens, i, G, b) ==
    IF i > Len(tokens) THEN <<>>
    ELSE tokens[i] \o (IF i \in G THEN b ELSE <<>>) \o SpacedFrom(tokens, i + 1, G, b)

Spaced(tokens, G, b) == (IF 0 \in G THEN b ELSE <<>>) \o SpacedFrom(tokens, 1, G, b)

\* one gap, or every gap
Gaps(tokens) == {{g} : g \in 0..Len(tokens)} \cup {0..Len(tokens)}

WhitespaceTexts ==
    UNION {{Spaced(l.text, G, b) : G \in Gaps(l.text), b \in BlankRuns} : l \in TokenLists}

\* a parameter bound to a value that is not finite
NonFiniteValues == {NaN, PInf, NInf, Q(3, 1)}
NonFiniteTexts ==
    {<<"x">>, <<"-", "x">>, <<"x", "^", "0">>, <<"1", "^", "x">>, <<"x", "^", "-", "1">>,
     <<"x", "!">>, <<"x", "-", "x">>, <<"0", "*", "x">>, <<"2", "/", "x">>,
     <<"m", "a", "x", "(", "x", ",", "1", ")">>,
     <<"p", "o", "w", "(", "x", ",", "0", ")">>,
     <<"a", "t", "a", "n", "(", "x", ")">>}

\* operations whose intermediate values leave the range: a+b-c, a*b/c,
\* avg(a,b,c) on large operands, and log(a,b) on 0, 1, 2 and .5
BigOperands ==
    {Operand(<<"9", "9", "9">>, Q(999, 1)), Operand(<<"2">>, Q(2, 1)),
     Operand(<<"-", "9", "9", "9">>, Q(-999, 1))}
LogOperands ==
    {Operand(<<"0">>, Zero), Operand(<<"1">>, One), Operand(<<"2">>, Q(2, 1)),
     Operand(<<".", "5">>, Q(1, 2))}

Sum3(a, b, c) == a \o <<"+">> \o b \o <<"-">> \o c
Prod3(a, b, c) == a \o <<"*">> \o b \o <<"/">> \o c
Avg3(a, b, c) == <<"a", "v", "g", "(">> \o a \o <<",">> \o b \o <<",">> \o c \o <<")">>
Log2(a, b) == <<"l", "o", "g", "(">> \o a \o <<",">> \o b \o <<")">>

IntermediateTexts ==
    UNION {{Sum3(a.text, b.text, c.text), Prod3(a.text, b.text, c.text),
            Avg3(a.text, b.text, c.text)} : a, b, c \in BigOperands}
    \cup {Log2(a.text, b.text) : a, b \in LogOperands}

\* a close bracket too many: a complete operand, the bracket, and what
\* follows it
CompleteOperands ==
    {<<"2">>, <<"(", "2", ")">>, <<"1", "+", "2">>, <<"2", "!">>, <<"-", "2", "^", "2">>,
     <<"m", "a", "x", "(", "1", ",", "2", ")">>}
CloseSuffixes ==
    {<<>>, <<"^", ".", "5">>, <<")">>, <<"(">>, <<"*", "3">>, <<" ", "$">>}

Closed(o, s) == o \o <<")">> \o s

CloseTexts == {Closed(o, s) : o \in CompleteOperands, s \in CloseSuffixes}

\* two operands with no operator between them: what stands before, the
\* first operand, a blank or nothing, the second operand, what follows.  Two
\* literals that would read as one are kept apart by the blank.
Adjacent(c, a, b1, b, d) == c \o a \o b1 \o b \o d

FirstOperands ==
    {<<"2">>, <<".", "5">>, <<"p", "i">>, <<"(", "2", ")">>, <<"3", "!">>,
     <<"s", "i", "n", "(", "0", ")">>, <<"x">>}
SecondOperands ==
    {<<"3">>, <<".", "5">>, <<"e">>, <<"(", "3", ")">>, <<"m", "a", "x", "(", "1", ")">>,
     <<"s", "i", "n", "(", "0", ")">>, <<"x">>}
Contexts ==
    {<<<<>>, <<>>>>, <<<<"1", "+">>, <<>>>>, <<<<"(">>, <<")">>>>, <<<<"2", "^">>, <<>>>>,
     <<<<"m", "a", "x", "(">>, <<",", "1", ")">>>>, <<<<"-">>, <<"*", "2">>>>}

ReadAsOne(a, b) ==
    /\ IsDigit(a[Len(a)]) \/ a[Len(a)] = "."
    /\ IsDigit(b[1]) \/ b[1] = "."

ImplicitTexts ==
    {Adjacent(p[1][1], p[2], p[3], p[4], p[1][2]) :
         p \in {q \in Contexts \X FirstOperands \X {<<>>, <<" ">>} \X SecondOperands :
                    ~ReadAsOne(q[2], q[4]) \/ q[3] # <<>>}}
    \cup {<<"1", "2", "E", "1", ".", "5">>, <<"1", "2", "a", "0">>}

\* a comma after a complete operand, at top level, inside plain brackets and
\* inside brackets inside an argument list
CommaTexts ==
    {<<"1", ",", "2">>, <<"(", "1", ",", "2", ")">>, <<"2", "!", ",", "3">>,
     <<"(", "2", ")", ",", "3">>, <<"1", "+", "2", " ", ",", "3">>,
     <<"2", "^", "2", ",", "3">>, <<"s", "i", "n", "(", "0", ")", ",", "1">>,
     <<"m", "a", "x", "(", "(", "1", ",", "2", ")", ")">>,
     <<"p", "o", "w", "(", "(", "1", ",", "2", ")", ",", "3", ")">>,
     <<"1", ",">>, <<"p", "i", ",", "e">>}

\* 1 followed by k times an operator and 1: texts of growing length without
\* a bracket
MaxChain == 4

RECURSIVE Chain(_, _)
Chain(op, k) == IF k = 0 THEN <<"1">> ELSE Chain(op, k - 1) \o <<op, "1">>

ChainTexts == {Chain(op, k) : op \in {"^", "*", "+"}, k \in 0..MaxChain}

HasX(t) == \E i \in 1..Len(t) : t[i] = "x"

\* the callers: a text, the number of MathEvaluationSetParam calls, and the
\* names and values they bind
Binding(text, sets, names, values) ==
    [text |-> text, sets |-> sets, names |-> names, values |-> values]

Caller(text, sets) == Binding(text, sets, ParamNames, ParamValues)

Callers ==
    {Caller(t, 0) : t \in Corpus \cup Words(Lexemes, MaxLex)
                          \cup Words(BracketLexemes, MaxBrackets)
                          \cup PrecedenceTexts \cup FactorialTexts \cup FunctionTexts
                          \cup {t \in DivisionTexts : \A i \in 1..Len(t) : t[i] # "x"}
                          \cup SignTexts \cup WhitespaceTexts \cup IntermediateTexts
                          \cup CloseTexts \cup {t \in ImplicitTexts : ~HasX(t)}
                          \cup CommaTexts \cup ChainTexts}
    \cup {Caller(t, MaxSets) : t \in ParamCorpus
                          \cup {t \in DivisionTexts : \E i \in 1..Len(t) : t[i] = "x"}}
    \cup {Binding(t, MaxSets + 1, NameSamples, {Q(2, 1)}) : t \in NameTexts}
    \cup {Binding(t, MaxSets, {<<"x">>}, {Q(3, 1)}) : t \in {i \in ImplicitTexts : HasX(i)}}
    \cup {Binding(t, MaxSets, {<<"x">>}, NonFiniteValues) : t \in NonFiniteTexts}
    \cup {Binding(t, MaxSets + 2, PrefixNames, PrefixValues) : t \in PrefixTexts}
    \cup {Binding(t, MaxSets + 1, KeywordNames, {Q(2, 1)}) : t \in KeywordTexts}

\* the callers that bind parameters
Binders == {c \in Callers : c.sets > 0}

Init == \E c \in Callers : InitWith(c.text, c.sets)

Next ==
    \/ \E c \in Binders :
          /\ c.text = expression
          /\ \E name \in c.names, value \in c.values : MathEvaluationSetParam(name, value)
    \/ MathEvaluationPerform_Call
    \/ MathEvaluationPerform_Return
    \/ Addends_CallFactors
    \/ Addends_Fold
    \/ Addends_Exit
    \/ Factors_Token
    \/ Factors_Signed
    \/ Factors_Primary
    \/ Factors_AfterBracket
    \/ Factors_AfterFunction
    \/ Factors_Lookahead
    \/ Factors_Factorial
    \/ Factors_CallExponentiation
    \/ Factors_AfterExponentiation
    \/ Factors_MulDiv
    \/ Exponentiation_CallFactors
    \/ Exponentiation_Pow
    \/ Function_Open
    \/ Function_CallArgument
    \/ Function_AfterArgument

Spec == Init /\ [][Next]_vars

\* A step of the running evaluation.  MathEvaluationPerform is a C call: once
\* made it runs, statement after statement, until it returns, so a running
\* evaluation always takes its next step.
Runs == stack # <<>> /\ steps' = steps + 1

LiveSpec == Spec /\ WF_steps(Runs)

(***************************************************************************)
(* Properties.                                                             *)
(***************************************************************************)
Success == "MathEvaluationSuccess"
Failure == "MathEvaluationFailure"

\* MathEvaluationPerform has returned, and no evaluation is running
Done == stack = <<>> /\ status # "none"

\* the step by which MathEvaluationPerform returns
Returns == stack # <<>> /\ stack' = <<>>

\* C1: when MathEvaluationPerform returns, the status is Failure exactly when
\* the session error is a non-empty message; on Failure the value written to
\* *result and the stored result are 0; on Success the error is "" and both
\* are the value the sum level computed.
C1_PerformOutcome ==
    [][Returns =>
         /\ (status' = Failure <=> error' # "")
         /\ status' \in {Success, Failure}
         /\ status' = Failure => (outResult' = Zero /\ result' = Zero)
         /\ status' = Success =>
                (error' = "" /\ outResult' = ret.value /\ result' = ret.value)]_vars

C1_Witness ==
    /\ Done
    /\ status = Failure
    /\ error = "division by zero"
    /\ outResult = Zero
    /\ params # <<>>

\* C2: from the step that records an error to the return of
\* MathEvaluationPerform, the error, the number of tokens fetched, the cursor
\* and the bracket-depth counter do not change.
C2_ErrorIsFinal ==
    [][(stack # <<>> /\ error # ErrNone) =>
         /\ error' = error
         /\ fetches' = fetches
         /\ cursor' = cursor
         /\ roundBracketsCount' = roundBracketsCount]_vars

\* an error found three brackets deep, on its way up
C2_Witness ==
    /\ Len(stack) >= 6
    /\ error # ErrNone
    /\ roundBracketsCount >= 3

RECURSIVE BalancedFrom(_, _, _)
\* the brackets of text from position i on are balanced, depth being open
BalancedFrom(text, i, depth) ==
    IF i > Len(text) THEN depth = 0
    ELSE IF text[i] = "(" THEN BalancedFrom(text, i + 1, depth + 1)
    ELSE IF text[i] = ")" THEN depth > 0 /\ BalancedFrom(text, i + 1, depth - 1)
    ELSE BalancedFrom(text, i + 1, depth)

Balanced(text) == BalancedFrom(text, 1, 0)

\* C3: an evaluation that succeeds has read a text whose round brackets are
\* balanced; a text with a missing or a surplus close bracket fails.
C3_BalancedBrackets == (Done /\ status = Success) => Balanced(expression)

\* a success on nested brackets
C3_Witness ==
    /\ Done
    /\ status = Success
    /\ \E i, j \in 1..Len(expression) :
          i < j /\ expression[i] = "(" /\ expression[j] = "(" /\ expression[j + 1] # "("
    /\ Len(expression) <= MaxBrackets

(***************************************************************************)
(* The value an expression denotes, computed operation by operation: an    *)
(* operation on an invalid operand, or whose result the exception policy   *)
(* rejects, denotes no value (NaN).                                        *)
(***************************************************************************)
Checked(v) == IF eexception(v) THEN NaN ELSE v

RNeg(a) == IF IsFinite(a) THEN Neg(a) ELSE NaN
RAdd(a, b) == IF IsFinite(a) /\ IsFinite(b) THEN Checked(Add(a, b)) ELSE NaN
RSub(a, b) == IF IsFinite(a) /\ IsFinite(b) THEN Checked(Sub(a, b)) ELSE NaN
RMul(a, b) == IF IsFinite(a) /\ IsFinite(b) THEN Checked(Mul(a, b)) ELSE NaN
RDiv(a, b) ==
    IF IsFinite(a) /\ IsFinite(b) /\ b # Zero THEN Checked(Div(a, b)) ELSE NaN
RPow(a, b) == IF IsFinite(a) /\ IsFinite(b) THEN Checked(pow(a, b)) ELSE NaN
RFact(a) ==
    IF IsFinite(a) /\ ~Lt(a, Zero) THEN Checked(tgamma(Add(a, One))) ELSE NaN

\* the finished evaluation agrees with the value v: it succeeds with v, or
\* fails when v is no value
Agrees(v) ==
    IF IsFinite(v) THEN status = Success /\ outResult = v ELSE status = Failure

\* C4: a unary sign is applied after the postfix ! and ^ of its factor and
\* before * and /: -a^b = -(a^b), -a! = -(a!), a+-b^c = a-(b^c),
\* a*-b = a*(-b); in exponent position it belongs to the exponent,
\* a^-b = a^(-b).
C4_UnarySign ==
    (Done /\ expression \in PrecedenceTexts) =>
        \A a, b, c \in Operands :
            /\ expression = NegPow(a.text, b.text) =>
                  Agrees(RNeg(RPow(a.value, b.value)))
            /\ expression = NegFact(a.text) => Agrees(RNeg(RFact(a.value)))
            /\ expression = PlusNegPow(a.text, b.text, c.text) =>
                  Agrees(RSub(a.value, RPow(b.value, c.value)))
            /\ expression = TimesNeg(a.text, b.text) =>
                  Agrees(RMul(a.value, RNeg(b.value)))
            /\ expression = PowNeg(a.text, b.text) =>
                  Agrees(RPow(a.value, RNeg(b.value)))

\* -2^2 = -4 has been evaluated
C4_Witness ==
    /\ Done
    /\ expression = NegPow(<<"2">>, <<"2">>)
    /\ status = Success
    /\ outResult = Q(-4, 1)

\* C5: the right operand of ^ is one optionally signed factor with its own
\* postfix: a^b^c = a^(b^c), a^-b/c = (a^(-b))/c, a^b*c = (a^b)*c.
C5_ExponentOperand ==
    (Done /\ expression \in PrecedenceTexts) =>
        \A a, b, c \in Operands :
            /\ expression = PowPow(a.text, b.text, c.text) =>
                  Agrees(RPow(a.value, RPow(b.value, c.value)))
            /\ expression = PowNegDiv(a.text, b.text, c.text) =>
                  Agrees(RDiv(RPow(a.value, RNeg(b.value)), c.value))
            /\ expression = PowTimes(a.text, b.text, c.text) =>
                  Agrees(RMul(RPow(a.value, b.value), c.value))

\* 2^3^2 = 512 has been evaluated
C5_Witness ==
    /\ Done
    /\ expression = PowPow(<<"2">>, <<"3">>, <<"2">>)
    /\ status = Success
    /\ outResult = Q(512, 1)

\* C6: * and / bind tighter than binary + and -, and both levels associate
\* to the left: a+b*c = a+(b*c), a-b-c = (a-b)-c, a/b/c = (a/b)/c,
\* a/b*c = (a/b)*c.
C6_BinaryLevels ==
    (Done /\ expression \in PrecedenceTexts) =>
        \A a, b, c \in Operands :
            /\ expression = PlusTimes(a.text, b.text, c.text) =>
                  Agrees(RAdd(a.value, RMul(b.value, c.value)))
            /\ expression = MinusMinus(a.text, b.text, c.text) =>
                  Agrees(RSub(RSub(a.value, b.value), c.value))
            /\ expression = DivDiv(a.text, b.text, c.text) =>
                  Agrees(RDiv(RDiv(a.value, b.value), c.value))
            /\ expression = DivTimes(a.text, b.text, c.text) =>
                  Agrees(RMul(RDiv(a.value, b.value), c.value))

\* 3/2*3 = 9/2 has been evaluated
C6_Witness ==
    /\ Done
    /\ expression = DivTimes(<<"3">>, <<"2">>, <<"3">>)
    /\ status = Success
    /\ outResult = Q(9, 2)

\* C7: the postfix factorial binds tighter than ^: a^b! = a^(b!).
C7_FactorialInExponent ==
    (Done /\ expression \in PrecedenceTexts) =>
        \A a, b \in Operands :
            expression = PowFact(a.text, b.text) =>
                Agrees(RPow(a.value, RFact(b.value)))

\* 2^3! = 64 has been evaluated
C7_Witness ==
    /\ Done
    /\ expression = PowFact(<<"2">>, <<"3">>)
    /\ status = Success
    /\ outResult = Q(64, 1)

\* text is a division of DivisionTexts whose divisor is zero-valued under
\* the bindings ps and is followed by one of the suffixes S
DividesByZero(text, ps, S) ==
    \E p \in DivisionPrefixes, a \in Dividends, z \in ZeroDivisors \cup {<<"x">>}, s \in S :
        /\ text = Division(p, a, z, s)
        /\ z = <<"x">> =>
              /\ FindParam(ps, z, 1) # 0
              /\ ps[FindParam(ps, z, 1)].value = Zero

\* the product level is about to divide by a right operand that is zero
AtDivisionByZero ==
    /\ Running("MathEvalProcessFactors", "muldiv")
    /\ Top.op = "MET_Div"
    /\ EqC(Top.rightValue, Zero)

\* C8, as amended: when the right operand of '/' is zero and the token that
\* follows the operand has been fetched without error, the evaluation fails
\* with "division by zero" and the division is not performed: the division
\* step records the error and returns 0, and the evaluation of a division
\* by a zero literal, bracket, power, function value or parameter that a
\* well-formed token follows ends with that error.
C8_DivisionByZero ==
    [][/\ AtDivisionByZero =>
             (error' = "division by zero" /\ ret'.value = Zero /\ stack' = Pop)
       /\ (Returns /\ expression \in DivisionTexts
                   /\ DividesByZero(expression, params, TokenSuffixes)) =>
             (status' = Failure /\ error' = "division by zero")]_vars

\* a division by a parameter bound to zero has failed
C8_Witness ==
    /\ Done
    /\ DividesByZero(expression, params, TokenSuffixes)
    /\ params # <<>>
    /\ \E i \in 1..Len(expression) : expression[i] = "x"
    /\ error = "division by zero"

\* C8 as stated: whatever follows the zero operand, the evaluation fails
\* with "division by zero".
C8_Original ==
    [][(Returns /\ expression \in DivisionTexts
                /\ DividesByZero(expression, params, TokenSuffixes \cup BrokenSuffixes)) =>
          (status' = Failure /\ error' = "division by zero")]_vars

\* the finished evaluation of a factorial of FactorialTexts behaves as C9
\* says when the negative-factorial error reads msg
FactorialRejects(msg) ==
    (Done /\ expression \in FactorialTexts) =>
        \A p \in FactorialPrefixes, v \in FactorialArguments :
            expression \in {p \o Postfix(v.text), p \o Fact(v.text)} =>
                IF Lt(v.value, Zero)
                THEN status = Failure /\ error = msg
                ELSE error # msg

\* C9: (x)! and fact(x) fail for x < 0 with the error "attempt to evaluate
\* factorial of negative number", and for x >= 0 neither raises it.
C9_NegativeFactorial ==
    FactorialRejects("attempt to evaluate factorial of negative number")

\* the numbers of arguments a function takes
Arities(name) ==
    IF name = <<"p", "o", "w">> THEN {2}
    ELSE IF name = <<"l", "o", "g">> THEN {1, 2}
    ELSE IF name \in {<<"m", "a", "x">>, <<"m", "i", "n">>,
                      <<"a", "v", "e", "r", "a", "g", "e">>, <<"a", "v", "g">>}
         THEN 1..MaxArgs
    ELSE {1}

RECURSIVE Greatest(_)
Greatest(vs) ==
    IF Len(vs) = 1 THEN vs[1]
    ELSE LET g == Greatest(SubSeq(vs, 1, Len(vs) - 1))
         IN  IF Gt(vs[Len(vs)], g) THEN vs[Len(vs)] ELSE g

RECURSIVE Least(_)
Least(vs) ==
    IF Len(vs) = 1 THEN vs[1]
    ELSE LET l == Least(SubSeq(vs, 1, Len(vs) - 1))
         IN  IF Lt(vs[Len(vs)], l) THEN vs[Len(vs)] ELSE l

RECURSIVE Sum(_)
Sum(vs) ==
    IF Len(vs) = 1 THEN vs[1]
    ELSE Add(Sum(SubSeq(vs, 1, Len(vs) - 1)), vs[Len(vs)])

\* the value of the function called name at the values vs
ValueOfCall(name, vs) ==
    CASE name = <<"s", "i", "n">> -> Checked(sin(vs[1]))
      [] name = <<"c", "o", "s">> -> Checked(cos(vs[1]))
      [] name = <<"t", "a", "n">> -> Checked(tan(vs[1]))
      [] name = <<"a", "s", "i", "n">> -> Checked(asin(vs[1]))
      [] name = <<"a", "c", "o", "s">> -> Checked(acos(vs[1]))
      [] name = <<"a", "t", "a", "n">> -> Checked(atan(vs[1]))
      [] name = <<"e", "x", "p">> -> Checked(exp(vs[1]))
      [] name = <<"f", "a", "c", "t">> -> RFact(vs[1])
      [] name = <<"p", "o", "w">> -> RPow(vs[1], vs[2])
      [] name = <<"l", "o", "g">> ->
            IF Len(vs) = 1 THEN Checked(log(vs[1]))
            ELSE Checked(Div(log(vs[2]), log(vs[1])))
      [] name = <<"m", "a", "x">> -> Greatest(vs)
      [] name = <<"m", "i", "n">> -> Least(vs)
      [] OTHER -> Checked(Div(Sum(vs), Q(Len(vs), 1)))

\* C10: a call with a permitted number of arguments is evaluated to the
\* function's value (and fails only when that is no value); a call with any
\* other number of arguments, none included, fails.  One argument for sin,
\* cos, tan, asin, acos, atan, exp and fact; two for pow; one or two for log;
\* one or more for max, min, average and avg.
C10_Arities ==
    (Done /\ expression \in FunctionTexts) =>
        \A name \in FunctionNames, args \in ArgumentLists(MaxArgs) :
            expression = FunctionCall(name, args) =>
                IF Len(args) \in Arities(name)
                THEN Agrees(ValueOfCall(name, [i \in 1..Len(args) |-> args[i].value]))
                ELSE status = Failure

\* the average of three arguments has been evaluated
C10_Witness ==
    /\ Done
    /\ expression = FunctionCall(<<"a", "v", "g">>,
                                 <<Operand(<<"2">>, Q(2, 1)), Operand(<<".", "5">>, Q(1, 2)),
                                   Operand(<<"(", "-", "2", ")">>, Q(-2, 1))>>)
    /\ status = Success
    /\ outResult = Q(1, 6)

\* the operator that stands before a signed operand, "" at the start
OperatorBefore(p) == IF p = <<>> THEN "" ELSE p[Len(p)]

\* C11: an operand carries at most one unary sign.  A single sign after a
\* binary operator or at the start is accepted, blanks or not, except '+'
\* after '+', which fails with or without blanks between the two; two signs
\* in a row always fail.
C11_OneUnarySign ==
    (Done /\ expression \in SignTexts) =>
        \A p \in SignPrefixes, b1 \in Blanks, s \in Signs, b2 \in Blanks,
           t \in Signs \cup {<<>>} :
            expression = Signed(p, b1, s, b2, t) =>
                (status = Success <=>
                    (t = <<>> /\ ~(OperatorBefore(p) = "+" /\ s = <<"+">>)))

\* 2+ +3 has been rejected
C11_Witness ==
    /\ Done
    /\ expression = Signed(<<"2", "+">>, <<" ">>, <<"+">>, <<>>, <<>>)
    /\ status = Failure
    /\ error = "unexpected symbol"

\* the names C12 accepts
ReservedIdentifiers ==
    {<<"e">>, <<"p", "i">>, <<"e", "x", "p">>, <<"f", "a", "c", "t">>,
     <<"p", "o", "w">>, <<"c", "o", "s">>, <<"s", "i", "n">>, <<"t", "a", "n">>,
     <<"l", "o", "g">>, <<"m", "a", "x">>, <<"m", "i", "n">>,
     <<"a", "c", "o", "s">>, <<"a", "s", "i", "n">>, <<"a", "t", "a", "n">>,
     <<"a", "v", "e", "r", "a", "g", "e">>, <<"a", "v", "g">>}

Acceptable(name) ==
    /\ Len(name) \in 1..255
    /\ \A i \in 1..Len(name) :
          name[i] \in LowerCase \cup UpperCase \cup DOMAIN DigitValue
    /\ name[1] \in LowerCase \cup UpperCase
    /\ name \notin ReservedIdentifiers

\* C12: MathEvaluationSetParam succeeds exactly when the name has 1 to 255
\* characters, all of them letters or digits, the first a letter, and is not
\* one of the 16 reserved identifiers; a failed call leaves the parameter
\* table unchanged.
C12_ParamNames ==
    [][\A name \in NameSamples :
          MathEvaluationSetParam(name, Q(2, 1)) =>
              /\ paramStatus' = Success <=> Acceptable(name)
              /\ paramStatus' \in {Success, Failure}
              /\ paramStatus' = Failure => params' = params]_vars

\* a reserved name has been refused by a session that holds a binding of
\* 255 characters
C12_Witness ==
    /\ paramStatus = Failure
    /\ error = "parameter name is a reserved keyword"
    /\ params # <<>>
    /\ params[1].len = 255

\* a token is about to be fetched at the cursor
TokenPoint ==
    /\ stack # <<>>
    /\ Top.pc \in {"token", "signed", "lookahead", "open"}

\* the bindings whose names are prefixes of the text at offset q
PrefixesAt(q) == {i \in 1..Len(params) : StartsWith(expression, q, params[i].name)}

\* the token fetched at the cursor is the parameter bound by binding i,
\* which starts at offset q
FetchesParam(i, q) ==
    /\ Tok.token = "MET_Val"
    /\ Tok.error = ErrNone
    /\ Tok.value = params[i].value
    /\ Tok.cursor = q + Len(params[i].name)

\* C13: when several bound names are prefixes of the text at the start of a
\* token, the tokenizer yields the value of the longest of them and advances
\* the cursor by that name's length.
C13_LongestName ==
    TokenPoint =>
        \A q \in {SkipBlanks(expression, cursor)} :
            PrefixesAt(q) # {} =>
                \E i \in PrefixesAt(q) :
                    /\ \A j \in PrefixesAt(q) :
                          Len(params[j].name) <= Len(params[i].name)
                    /\ FetchesParam(i, q)

\* abc has been evaluated with a, ab and abc bound, a and abc to different
\* values
C13_Witness ==
    /\ Done
    /\ expression = <<"a", "b", "c">>
    /\ Len(params) = 3
    /\ params[1].value # params[3].value
    /\ status = Success
    /\ outResult = params[1].value
    /\ params[1].name = <<"a", "b", "c">>

ValueOf(ps, name) == ps[FindParam(ps, name, 1)].value

IsBound(ps, name) == \E i \in 1..Len(ps) : ps[i].name = name

\* C14: MathEvaluationSetParam on a bound name overwrites the value in
\* place: the bindings keep their number, order and names, no name is bound
\* twice, and an evaluation uses the value bound last.
C14_Rebinding ==
    [][/\ \A name \in PrefixNames, value \in PrefixValues :
             (MathEvaluationSetParam(name, value) /\ IsBound(params, name)) =>
                 /\ paramStatus' = Success
                 /\ Len(params') = Len(params)
                 /\ \A i \in 1..Len(params) :
                       /\ params'[i].name = params[i].name
                       /\ params'[i].value =
                             IF params[i].name = name THEN value ELSE params[i].value
                 /\ \A i, j \in 1..Len(params') :
                       params'[i].name = params'[j].name => i = j
       /\ (Returns /\ expression = <<"a", "b", "*", "a">>
                   /\ IsBound(params, <<"a">>) /\ IsBound(params, <<"a", "b">>)) =>
             /\ status' = Success
             /\ outResult' = Mul(ValueOf(params, <<"a", "b">>), ValueOf(params, <<"a">>))]_vars

\* ab*a has been evaluated after three calls that bound two names
C14_Witness ==
    /\ Done
    /\ expression = <<"a", "b", "*", "a">>
    /\ setBudget = 0
    /\ Len(params) = 2
    /\ last.status = Success
    /\ last.result = Q(6, 1)

\* C15: a second MathEvaluationPerform on a session whose text and bindings
\* have not been modified since the first returns the same status, the same
\* result, the same error description and the same error offset.
C15_PerformTwice ==
    [][(Returns /\ last.status # "none") => last' = last]_vars

\* a second evaluation is about to return with an error, after a first one
\* that failed
C15_Witness ==
    /\ Running("MathEvaluationPerform", "return")
    /\ last.status = Failure
    /\ last.position > 0
    /\ error # ErrNone

\* the characters a literal or a name is made of
WordChar(c) == c \in LowerCase \cup UpperCase \cup DOMAIN DigitValue \cup {"."}

\* the gaps of tokens whose two neighbours read as one word once nothing
\* separates them
JoiningGaps(tokens) ==
    {g \in 1..(Len(tokens) - 1) :
        WordChar(tokens[g][Len(tokens[g])]) /\ WordChar(tokens[g + 1][1])}

\* the finished evaluation is of the tokens of l, with the run of blanks b
\* in the gaps G
ReadsSpaced(l, G, b) == expression = Spaced(l.text, G, b)

\* C16, as amended: blanks (space, tab, CR, LF) inserted between two
\* consecutive tokens, before the first or after the last change neither
\* the status nor the result, and neither does their removal, as long as a
\* blank is left between two tokens that would otherwise read as one word.
C16_Whitespace ==
    (Done /\ expression \in WhitespaceTexts) =>
        \A l \in TokenLists, b \in BlankRuns :
            \A G \in Gaps(l.text) :
                (ReadsSpaced(l, G, b) /\ (JoiningGaps(l.text) # {} => (b # <<>> /\ JoiningGaps(l.text) \subseteq G))) =>
                    Agrees(l.value)

\* -2^2! has been evaluated with a carriage return in every gap
C16_Witness ==
    /\ Done
    /\ expression = <<"\r", "-", "\r", "2", "\r", "^", "\r", "2", "\r", "!", "\r">>
    /\ status = Success
    /\ outResult = Q(-4, 1)

\* C16 as stated: blanks between two consecutive tokens can be inserted and
\* removed without changing the status or the result.
C16_Original ==
    (Done /\ expression \in WhitespaceTexts) =>
        \A l \in TokenLists, b \in BlankRuns :
            \A G \in Gaps(l.text) : ReadsSpaced(l, G, b) => Agrees(l.value)

\* C17: when MathEvaluationPerform reports success, the stored result and
\* the value written to *result are finite, whatever the expression and the
\* values bound, values that are not finite included.
C17_FiniteResult ==
    (Done /\ status = Success) => (IsFinite(result) /\ IsFinite(outResult))

\* x^0 has been evaluated to 1 with x bound to NaN
C17_Witness ==
    /\ Done
    /\ status = Success
    /\ expression = <<"x", "^", "0">>
    /\ params # <<>>
    /\ IsNaN(params[1].value)
    /\ result = One

\* some value of vs is invalid
SomeInvalid(vs) == \E v \in vs : eexception(v)

\* C18: an evaluation that computes an invalid value (not-a-number or
\* infinite) in an arithmetic step does not return success: of a+b-c when
\* a+b or the difference is invalid, of a*b/c, of avg(a,b,c) when a sum or
\* the quotient is, and of log(a,b) when log(a), log(b) or their quotient is.
C18_InvalidIntermediate ==
    (Done /\ expression \in IntermediateTexts) =>
        /\ \A a, b, c \in BigOperands :
              /\ (expression = Sum3(a.text, b.text, c.text)
                    /\ SomeInvalid({Add(a.value, b.value),
                                    Sub(Add(a.value, b.value), c.value)}))
                    => status = Failure
              /\ (expression = Prod3(a.text, b.text, c.text)
                    /\ SomeInvalid({Mul(a.value, b.value),
                                    Div(Mul(a.value, b.value), c.value)}))
                    => status = Failure
              /\ (expression = Avg3(a.text, b.text, c.text)
                    /\ SomeInvalid({Add(a.value, b.value),
                                    Add(Add(a.value, b.value), c.value),
                                    Div(Add(Add(a.value, b.value), c.value), Q(3, 1))}))
                    => status = Failure
        /\ \A a, b \in LogOperands :
              (expression = Log2(a.text, b.text)
                 /\ SomeInvalid({log(a.value), log(b.value),
                                 Div(log(b.value), log(a.value))}))
                 => status = Failure

RECURSIVE UnmatchedFrom(_, _, _)
\* the position (from 1) of the first close bracket of text, from position
\* i on, that has no open bracket before it to match, depth being open;
\* 0 when there is none
UnmatchedFrom(text, i, depth) ==
    IF i > Len(text) THEN 0
    ELSE IF text[i] = "(" THEN UnmatchedFrom(text, i + 1, depth + 1)
    ELSE IF text[i] = ")"
         THEN (IF depth = 0 THEN i ELSE UnmatchedFrom(text, i + 1, depth - 1))
    ELSE UnmatchedFrom(text, i + 1, depth)

UnmatchedClose(text) == UnmatchedFrom(text, 1, 0)

UnexpectedClose == "unexpected close round bracket"

\* the sum level has ended on a close bracket while no bracket is open
AtUnmatchedClose ==
    /\ Running("MathEvalProcessAddends", "exit")
    /\ Top.rightOp = "MET_rbc"
    /\ roundBracketsCount = 0

\* C19, as amended: a close bracket with no matching open bracket that
\* follows a complete operand evaluated without error makes the evaluation
\* fail with exactly "unexpected close round bracket", the offset reported
\* being the position just after that bracket: the sum level that ends on it
\* records the error and returns 0 without moving the cursor, and the
\* evaluation of operand ) suffix ends with that error at that offset.
C19_UnmatchedClose ==
    [][/\ AtUnmatchedClose =>
             /\ error' = UnexpectedClose
             /\ cursor' = cursor
             /\ ret'.value = Zero
             /\ stack' = Pop
       /\ (Returns /\ expression \in CloseTexts) =>
             /\ last'.status = Failure
             /\ last'.error = UnexpectedClose
             /\ last'.position = UnmatchedClose(expression)
             /\ \E o \in CompleteOperands : last'.position = Len(o) + 1]_vars

\* the evaluation of (2))^.5 has failed at offset 4
C19_Witness ==
    /\ expression = Closed(<<"(", "2", ")">>, <<"^", ".", "5">>)
    /\ last.status = Failure
    /\ last.error = UnexpectedClose
    /\ last.position = 4

\* C19 as stated: an evaluation that reads a close bracket with no matching
\* open bracket fails with "unexpected close round bracket" at the offset
\* just after that bracket.
C19_Original ==
    (last.status # "none" /\ UnmatchedClose(expression) > 0
                         /\ last.position >= UnmatchedClose(expression)) =>
        /\ last.status = Failure
        /\ last.error = UnexpectedClose
        /\ last.position = UnmatchedClose(expression)

\* C20: there is no implicit multiplication.  A complete operand (literal,
\* constant, parameter, bracketed expression, factorial or function call)
\* directly followed by another value, an open bracket or a function name,
\* with or without a blank in between, makes the evaluation fail; so do the
\* literals whose scan stops early, 12E1.5 and 12a0.
C20_NoImplicitMultiplication ==
    (last.status # "none" /\ expression \in ImplicitTexts) => last.status = Failure

\* 2(3) has been rejected at the open bracket, and x (3) with x bound
C20_Witness ==
    /\ last.status = Failure
    /\ \/ /\ expression = Adjacent(<<>>, <<"2">>, <<>>, <<"(", "3", ")">>, <<>>)
          /\ last.error = "unexpeced symbol"
          /\ last.position = 2
       \/ /\ expression = Adjacent(<<>>, <<"x">>, <<" ">>, <<"(", "3", ")">>, <<>>)
          /\ params # <<>>
          /\ last.position = 3

\* the step of a MathEvaluationSetParam call
Binds == setBudget' # setBudget

SetParamErrors ==
    {"parameter name is empty", "parameter name exceeds 255 characters in length",
     "parameter name is a reserved keyword", "invalid character in parameter name"}

\* C21: MathEvaluationGetError returns the error description of the most
\* recent MathEvaluationPerform or MathEvaluationSetParam call: the message of
\* that call when it failed, the empty string when it succeeded and when
\* neither has been called yet; the offset is 0 while no evaluation has run.
C21_ErrorOfLastCall ==
    [][/\ (stack = <<>> /\ status = "none" /\ paramStatus = "none")
            => MathEvaluationGetError(error, cursor).error = ""
       /\ (stack = <<>> /\ status = "none")
            => MathEvaluationGetError(error, cursor).position = 0
       /\ Binds =>
            /\ paramStatus' = Success => MathEvaluationGetError(error', cursor').error = ""
            /\ paramStatus' = Failure
                 => MathEvaluationGetError(error', cursor').error \in SetParamErrors
       /\ Returns =>
            /\ status' = Success => MathEvaluationGetError(error', cursor').error = ""
            /\ status' = Failure
                 => MathEvaluationGetError(error', cursor').error \notin {"", ErrNone}
      ]_vars

\* a token fetch of the running evaluation
Fetches == stack # <<>> /\ fetches' # fetches

\* the most steps an evaluation takes from one token fetch to the next
StepsPerFetch == 5

\* C22: MathEvaluationPerform terminates.  Every token fetch strictly
\* advances the cursor or records an error; every turn of a loop of the engine
\* (the addend loop, the factor loop, the argument loops of the functions)
\* starts with a token fetch: the product level fetches at the top of its
\* loop, the sum level calls it at the top of its own, and a function calls
\* the sum level for each argument; so no more than StepsPerFetch steps lie
\* between two fetches, no more fetches are made than the text and its
\* terminator have characters, and a running evaluation always returns.
C22_Terminates ==
    /\ [][/\ Fetches => fetches' = fetches + 1 /\ (cursor' > cursor \/ error' # ErrNone)
          /\ Running("MathEvalProcessFactors", "token") => Fetches
          /\ Running("MathEvalProcessAddends", "factors")
               => Running("MathEvalProcessFactors", "token")'
          /\ Running("MathEvalProcessFunction", "argument")
               => Running("MathEvalProcessAddends", "factors")'
         ]_vars
    /\ [](steps <= StepsPerFetch * (fetches + 1))
    /\ [](fetches <= Len(expression) + 1)
    /\ (stack # <<>>) ~> (stack = <<>> /\ status \in {Success, Failure})

\* max ( 1 , 3 ), a blank in every gap, has returned 3 after seven fetches
\* and two turns of the argument loop, the cursor past the terminator
C22_Witness ==
    /\ Done
    /\ expression = Spaced(<<<<"m", "a", "x">>, <<"(">>, <<"1">>, <<",">>, <<"3">>, <<")">>>>,
                            0..6, <<" ">>)
    /\ status = Success
    /\ fetches = 7
    /\ cursor = Len(expression) + 1

\* the number of characters c among the first k characters of text
RECURSIVE CountOf(_, _, _)
CountOf(text, c, k) ==
    IF k <= 0 THEN 0
    ELSE CountOf(text, c, k - 1) + (IF k <= Len(text) /\ text[k] = c THEN 1 ELSE 0)

\* open brackets consumed so far less close brackets consumed so far
ConsumedDepth == CountOf(expression, "(", cursor) - CountOf(expression, ")", cursor)

\* the steps that accept a bracket: an open bracket where a value may start
\* or after a function name, a close bracket after a complete operand
AcceptsOpen ==
    \/ Running("MathEvalProcessFactors", "primary") /\ Top.token = "MET_rbo"
    \/ Running("MathEvalProcessFunction", "open") /\ Tok.error = ErrNone
                                                  /\ Tok.token = "MET_rbo"
AcceptsClose == Running("MathEvalProcessAddends", "exit") /\ Top.rightOp = "MET_rbc"

C24_ParamsOrdered ==
    /\ \A i \in 1..Len(params) : params[i].len = Len(params[i].name)
    /\ \A i \in 1..(Len(params) - 1) : params[i].len >= params[i + 1].len

\* three names bound, the shortest first and the longest last by the order of
\* the list; or one name bound after another was refused
C24_Witness ==
    \/ /\ Len(params) = 3
       /\ params[1].name = <<"a", "b", "c">>
       /\ params[3].name = <<"a">>
    \/ /\ Len(params) = 1
       /\ setBudget = 0
       /\ expression \in NameTexts
       /\ paramStatus = Success
       /\ error \in SetParamErrors

\* the calls with more arguments than the function takes
TooManyArguments ==
    {FunctionCall(c[1], c[2]) :
         c \in {d \in FunctionNames \X ArgumentLists(MaxArgs) :
                    \A n \in Arities(d[1]) : Len(d[2]) > n}}

\* C25: a comma after a complete operand that is not between the arguments
\* of pow, log, max, min, average or avg (at top level, inside plain
\* brackets, after the last argument a function takes, as in sin(4,5) and
\* pow(1,2,3)) makes the evaluation fail with the error "unexpected comma".
C25_MisplacedComma ==
    (last.status # "none" /\ expression \in CommaTexts \cup TooManyArguments)
        => /\ last.status = Failure
           /\ last.error = "unexpected comma"

\* the sum level is about to fall through to its error switch on a close
\* bracket: the count, decremented, is not negative and no exit test holds
FallsThroughOnClose ==
    /\ Running("MathEvalProcessAddends", "exit")
    /\ Top.rightOp = "MET_rbc"
    /\ roundBracketsCount - 1 >= 0
    /\ ~AddendsMustExit(Top, roundBracketsCount - 1)

\* the running sum-level call evaluates the first argument of pow
FirstArgumentOfPow ==
    /\ Len(stack) > 1
    /\ stack[Len(stack) - 1].fn = "MathEvalProcessFunction"
    /\ stack[Len(stack) - 1].func = "MET_Pow"
    /\ stack[Len(stack) - 1].argno = 1

\* C26: the sum level falls through to its error switch on a close bracket
\* only in the call that evaluates the first argument of pow, which exits on
\* a comma alone; in every other call the "unexpected close round bracket"
\* case of the switch is never reached.
C26_CloseInSwitch ==
    FallsThroughOnClose => FirstArgumentOfPow

\* pow(2): the close bracket ends the first argument, the count goes from 1
\* to 0 and the call exits on neither the count nor the token
C26_Witness ==
    /\ FallsThroughOnClose
    /\ FirstArgumentOfPow
    /\ expression = <<"p", "o", "w", "(", "2", ")">>
    /\ roundBracketsCount = 1

\* the claim as it is worded: the case is reached for no input
C26_Original == ~FallsThroughOnClose

\* the deepest bracket or function nesting of a text
NestingDepth(text) ==
    LET D == {CountOf(text, "(", k) - CountOf(text, ")", k) : k \in 0..Len(text)}
    IN  CHOOSE m \in D : \A d \in D : m >= d

Exponentiations(text) == CountOf(text, "^", Len(text))

\* C27: the number of nested engine calls is bounded by the nesting depth of
\* the text and the number of its exponentiation operators: three calls for
\* the evaluation, its sum level and its product level, one for a function
\* whose bracket is still to be read, at most three more for each level of
\* nesting (the function, its sum level, its product level) and two more for
\* each ^ (the exponentiation and the product level of its exponent).  For
\* texts without ^ it is bounded by the nesting depth alone.
C27_RecursionDepth ==
    Len(stack) <= 4 + 3 * NestingDepth(expression) + 2 * Exponentiations(expression)

\* 1^1^...^1 with MaxChain operators is evaluating its last exponent, two
\* calls deeper for each ^; 1+1+...+1 of the same length never leaves the
\* three calls of a text without brackets
C27_Witness ==
    /\ expression = Chain("^", MaxChain)
    /\ Len(stack) = 3 + 2 * MaxChain
    /\ Top.fn = "MathEvalProcessFactors"
    /\ Top.isExponent

\* what a text of nesting depth d needs when no level holds more than one ^
DepthOfNesting(d) == 5 * (d + 1)

\* the claim as it is worded: the depth of the calls is bounded by the
\* nesting depth of the text alone
C27_Original ==
    Len(stack) <= DepthOfNesting(NestingDepth(expression))

\* The steps that test a value and find it invalid: the power, the factorial,
\* the result of a function, the product or quotient, the sum, and a literal
\* about to be read.
InvalidPower ==
    /\ Running("MathEvalProcessExponentiation", "pow")
    /\ eexception(pow(Top.base, ret.value))

InvalidFactorial ==
    /\ Running("MathEvalProcessFactors", "factorial")
    /\ ~Lt(Top.rightValue, Zero)
    /\ eexception(tgamma(Add(Top.rightValue, One)))

InvalidFunctionResult ==
    /\ Running("MathEvalProcessFunction", "evaluated")
    /\ \E o \in {FunctionStep(Top.func, Top.argno, Top.result, Top.count,
                                ret.value, ret.token)} :
          ~o.more /\ eexception(o.result)

InvalidProduct ==
    /\ Running("MathEvalProcessFactors", "muldiv")
    /\ \E o \in {MulDivOutcome(Top.leftValue, Top.op, Top.rightValue, Top.sign)} :
          o.error = ErrNone /\ eexception(o.value)

InvalidSum ==
    /\ Running("MathEvalProcessAddends", "exit")
    /\ roundBracketsCount' >= 0
    /\ AddendsMustExit(Top, roundBracketsCount')
    /\ eexception(Top.result)

InvalidLiteral ==
    /\ Fetches
    /\ ~Running("MathEvalProcessFactors", "factorial")
    /\ \E b \in {SkipBlanks(expression, cursor)} :
          /\ IsDigit(CharAt(expression, b)) \/ CharAt(expression, b) = "."
          /\ strtod(expression, b).end # b
          /\ eexception(strtod(expression, b).value)

ComplexOrTooBig == "result is complex or too big"

\* C28: a step of an evaluation without error that finds a value invalid
\* records "result is complex or too big" for a power, a factorial, the
\* result of a function and a sum, "result is too big" for a product or
\* quotient, and "value is too big" for a literal.
C28_InvalidValueMessages ==
    [][(stack # <<>> /\ error = ErrNone) =>
          /\ (InvalidPower \/ InvalidFactorial \/ InvalidFunctionResult \/ InvalidSum)
               => error' = ComplexOrTooBig
          /\ InvalidProduct => error' = "result is too big"
          /\ InvalidLiteral => error' = "value is too big"
      ]_vars

\* 999*2/2 has failed with "result is too big" at the quotient sign
C28_Witness ==
    /\ expression = Prod3(<<"9", "9", "9">>, <<"2">>, <<"2">>)
    /\ last.status = Failure
    /\ last.error = "result is too big"
    /\ last.position = 6

\* the claim as it is worded: every computed value found invalid records
\* "result is complex or too big"
C28_Original ==
    [][(stack # <<>> /\ error = ErrNone) =>
          /\ (InvalidPower \/ InvalidFactorial \/ InvalidFunctionResult \/ InvalidSum
                 \/ InvalidProduct) => error' = ComplexOrTooBig
          /\ InvalidLiteral => error' = "value is too big"
      ]_vars

\* a reserved identifier is spelled at offset q
SpellsReserved(q) == \E w \in ReservedIdentifiers : StartsWith(expression, q, w)

\* the parameter bound by binding i is read at offset q by this step
ReadsParam(i, q) ==
    /\ Tok.token = "MET_Val"
    /\ Tok.value = params[i].value
    /\ cursor' = q + Len(params[i].name)
    /\ error' = error

\* C29: a token that does not start with a digit or '.' is the value of a
\* bound parameter whenever a bound name is a prefix of the text there, also
\* where the text spells a constant or a function name; of the names that
\* begin, continue or equal a reserved identifier MathEvaluationSetParam
\* refuses those equal to one and binds the others.
C29_ParamsBeforeKeywords ==
    /\ [][(TokenPoint /\ Fetches) =>
             \A q \in {SkipBlanks(expression, cursor)} :
                (/\ ~IsDigit(CharAt(expression, q))
                 /\ CharAt(expression, q) # "."
                 /\ PrefixesAt(q) # {})
                    => \E i \in PrefixesAt(q) : ReadsParam(i, q)
         ]_vars
    /\ [](\A name \in KeywordNames :
             /\ SetParamOutcome(params, name, One).error
                   = "parameter name is a reserved keyword"
                     <=> name \in ReservedIdentifiers
             /\ SetParamOutcome(params, name, One).status = Failure
                     <=> name \in ReservedIdentifiers)

\* sin(0) has been evaluated with s bound: s was read and in(0) refused
C29_Witness ==
    /\ Done
    /\ expression = <<"s", "i", "n", "(", "0", ")">>
    /\ IsBound(params, <<"s">>)
    /\ SpellsReserved(0)
    /\ status = Failure
    /\ MathEvaluationGetError(error, cursor).position = 1

\* the offset just after the terminator of the text
AfterTerminator == Len(expression) + 1

\* this step fetches the end-of-input token
FetchesEof == Fetches /\ Tok.token = "MET_Eof" /\ Tok.error = ErrNone

\* C30: an evaluation fetches no token after the end-of-input token: every
\* fetch starts at or before the terminator and ends at most one past it,
\* the fetch of the end-of-input token leaves the cursor one past the
\* terminator, where it stays with no further fetch until the evaluation
\* returns; the cursor of a running evaluation is within 0 .. length+1, and
\* the offset MathEvaluationGetError reports after the evaluation is the
\* cursor, at most length+1.
C30_NothingAfterEof ==
    /\ [][/\ Fetches => (cursor \in 0..Len(expression)
                         /\ cursor' \in 0..AfterTerminator)
          /\ FetchesEof => cursor' = AfterTerminator
          /\ (stack # <<>> /\ cursor = AfterTerminator)
                => (cursor' = cursor /\ fetches' = fetches)
          /\ Returns => (last'.position = cursor
                         /\ last'.position <= AfterTerminator)
        ]_vars
    /\ [](stack # <<>> => cursor \in 0..AfterTerminator)

\* 2- has failed after its end-of-input token was fetched, and the reported
\* offset is one past the terminator
C30_Witness ==
    /\ Done
    /\ expression = <<"2", "-">>
    /\ status = Failure
    /\ fetches = 3
    /\ last.position = AfterTerminator

====
